---- MODULE Spec2Model ----
(***************************************************************************)
(* Verification model of the PDF-to-structured-data pipeline:              *)
(*   src/src/pdf_processor.py  PDFProcessor (text extraction chain)        *)
(*   src/src/extractor.py      StructuredExtractor, get_language_model_type*)
(*   src/src/utils.py          find_pdf_files                              *)
(*   src/pdf_extractor.py      batch command                               *)
(*                                                                         *)
(* Python str values are sequences of one-character strings, so that       *)
(* lower(), strip() and the `in` substring test are computed.  Python dict *)
(* values are functions whose DOMAIN is the set of keys present.           *)
(***************************************************************************)
EXTENDS Integers, Sequences, FiniteSets, TLC

VARIABLES pc,
          pdf_path, libs, text_result,
          model_id, language_model_type,
          text, template_config, env, service, results, calls,
          output_path, format, fault, files, success,
          api_valid, directory, max_files, template, custom_template, passes, workers,
          pdf_files, idx, results_summary, log,
          template_manager, call_result,
          command, cli_args, config_manager, visualize, output

chainVars == <<pdf_path, libs, text_result>>
dispatchVars == <<model_id, language_model_type>>
extractorVars == <<text, template_config, env, service, results, calls>>
saveVars == <<output_path, format, fault, files, success>>
batchInputs == <<api_valid, directory, max_files, template, custom_template, passes, workers>>
batchVars == <<batchInputs, pdf_files, idx, results_summary, log>>
templateVars == <<template_manager, call_result>>
cliVars == <<command, cli_args, config_manager, visualize, output>>
vars == <<pc, chainVars, dispatchVars, extractorVars, saveVars, batchVars, templateVars, cliVars>>

NoValue == "-"

(***************************************************************************)
(* Bounds.                                                                 *)
(***************************************************************************)
MaxPages == 2
MaxFragments == 3
MaxExamples == 2
MaxItems == 2
MaxFiles == 3

(***************************************************************************)
(* str helpers.                                                            *)
(***************************************************************************)
Whitespace == {" ", "\n"}

LowerChar(c) ==
    CASE c = "P" -> "p"
      [] c = "D" -> "d"
      [] c = "F" -> "f"
      [] c = "G" -> "g"
      [] c = "T" -> "t"
      [] c = "E" -> "e"
      [] c = "M" -> "m"
      [] c = "I" -> "i"
      [] c = "N" -> "n"
      [] c = "J" -> "j"
      [] c = "S" -> "s"
      [] c = "O" -> "o"
      [] c = "C" -> "c"
      [] c = "V" -> "v"
      [] c = "L" -> "l"
      [] c = "H" -> "h"
      [] OTHER -> c

Lower(s) == [i \in 1..Len(s) |-> LowerChar(s[i])]

RECURSIVE LStrip(_)
LStrip(s) == IF s # <<>> /\ Head(s) \in Whitespace THEN LStrip(Tail(s)) ELSE s

RECURSIVE RStrip(_)
RStrip(s) ==
    IF s # <<>> /\ s[Len(s)] \in Whitespace
    THEN RStrip(SubSeq(s, 1, Len(s) - 1))
    ELSE s

Strip(s) == RStrip(LStrip(s))

\* prefix.startswith / `sub in s`
StartsWith(s, prefix) ==
    Len(prefix) <= Len(s) /\ SubSeq(s, 1, Len(prefix)) = prefix

Contains(s, sub) ==
    \E k \in 0..(Len(s) - Len(sub)) : SubSeq(s, k + 1, k + Len(sub)) = sub

RECURSIVE Concat(_)
Concat(parts) == IF parts = <<>> THEN <<>> ELSE Head(parts) \o Concat(Tail(parts))

RECURSIVE Join(_, _)
Join(sep, parts) ==
    IF parts = <<>> THEN <<>>
    ELSE IF Len(parts) = 1 THEN parts[1]
    ELSE parts[1] \o sep \o Join(sep, Tail(parts))

RECURSIVE SeqsUpTo(_, _)
SeqsUpTo(S, n) ==
    IF n = 0 THEN {<<>>}
    ELSE LET shorter == SeqsUpTo(S, n - 1)
         IN  shorter \cup {Append(s, x) : s \in {t \in shorter : Len(t) = n - 1}, x \in S}

(***************************************************************************)
(* PDFProcessor (src/src/pdf_processor.py).                                *)
(***************************************************************************)
\* self.extraction_methods, in the order __init__ builds it
extraction_methods == <<"pdfplumber", "pymupdf", "pypdf2">>

\* f"--- Page {page_num + 1} ---\n": the header is one non-blank token
PageHeaders == <<"--- Page 1 ---", "--- Page 2 ---", "--- Page 3 ---", "--- Page 4 ---">>
PageTag(page_num, page_text) == <<PageHeaders[page_num + 1], "\n">> \o page_text

\* the inclusion test of a page: pdfplumber keeps a page whose text is
\* truthy (`if page_text:`), pymupdf and pypdf2 one whose stripped text is
Keep(method, page_text) ==
    IF method = "pdfplumber" THEN page_text # <<>>
    ELSE Strip(page_text) # <<>>

\* mutant: the header counts the pages included so far
RECURSIVE text_content_renumbered(_, _, _)
text_content_renumbered(method, pages, page_num) ==
    IF page_num >= Len(pages) THEN <<>>
    ELSE (IF Keep(method, pages[page_num + 1])
          THEN <<PageTag(Cardinality({n \in 1..page_num : Keep(method, pages[n])}),
                         pages[page_num + 1])>>
          ELSE <<>>) \o text_content_renumbered(method, pages, page_num + 1)

\* the per-page loop of a strategy
RECURSIVE text_content(_, _, _)
text_content(method, pages, page_num) ==
    IF page_num >= Len(pages) THEN <<>>
    ELSE (IF Keep(method, pages[page_num + 1])
          THEN <<PageTag(page_num, pages[page_num + 1])>>
          ELSE <<>>) \o text_content(method, pages, page_num + 1)

StrategyReturn(method, pages) ==
    [raised   |-> FALSE,
     text     |-> Join(<<"\n", "\n">>, text_content(method, pages, 0)),
     metadata |-> [method |-> method, pages |-> Len(pages)]]

StrategyRaise == [raised |-> TRUE, text |-> <<>>, metadata |-> NoValue]

\* lib is what the underlying library does on this file:
\* [raises |-> BOOLEAN, pages |-> the text the library yields for each page]
extract_with_pdfplumber(lib) ==
    IF lib.raises THEN StrategyRaise ELSE StrategyReturn("pdfplumber", lib.pages)

extract_with_pymupdf(lib) ==
    IF lib.raises THEN StrategyRaise ELSE StrategyReturn("pymupdf", lib.pages)

extract_with_pypdf2(lib) ==
    IF lib.raises THEN StrategyRaise ELSE StrategyReturn("pypdf2", lib.pages)

CallMethod(method, lib) ==
    CASE method = "pdfplumber" -> extract_with_pdfplumber(lib)
      [] method = "pymupdf"    -> extract_with_pymupdf(lib)
      [] method = "pypdf2"     -> extract_with_pypdf2(lib)

PdfSuffix == <<".", "p", "d", "f">>

\* mutant: the loop keeps going after a strategy has succeeded and returns
\* the last successful output
RECURSIVE TryMethodsLast(_, _, _, _)
TryMethodsLast(path, behaviour, i, invoked) ==
    LET method == extraction_methods[i]
        result == CallMethod(method, behaviour[method])
        called == Append(invoked, method)
        rest   == IF i < Len(extraction_methods)
                  THEN TryMethodsLast(path, behaviour, i + 1, called)
                  ELSE [kind |-> "RuntimeError", path |-> path, text |-> <<>>,
                        metadata |-> NoValue, invoked |-> called]
    IN  IF rest.kind = "ok" \/ result.raised \/ Strip(result.text) = <<>>
        THEN rest
        ELSE [kind |-> "ok", path |-> path, text |-> result.text,
              metadata |-> result.metadata, invoked |-> rest.invoked]

\* mutant: the emptiness test on the strategy's text is dropped
RECURSIVE TryMethodsNoStripTest(_, _, _, _)
TryMethodsNoStripTest(path, behaviour, i, invoked) ==
    IF i > Len(extraction_methods)
    THEN [kind |-> "RuntimeError", path |-> path, text |-> <<>>,
          metadata |-> NoValue, invoked |-> invoked]
    ELSE LET method == extraction_methods[i]
             result == CallMethod(method, behaviour[method])
             called == Append(invoked, method)
         IN  IF ~result.raised
             THEN [kind |-> "ok", path |-> path, text |-> result.text,
                   metadata |-> result.metadata, invoked |-> called]
             ELSE TryMethodsNoStripTest(path, behaviour, i + 1, called)

\* mutant: no try/except around the call of a strategy, so its exception
\* leaves extract_text
RECURSIVE TryMethodsPropagate(_, _, _, _)
TryMethodsPropagate(path, behaviour, i, invoked) ==
    IF i > Len(extraction_methods)
    THEN [kind |-> "RuntimeError", path |-> path, text |-> <<>>,
          metadata |-> NoValue, invoked |-> invoked]
    ELSE LET method == extraction_methods[i]
             result == CallMethod(method, behaviour[method])
             called == Append(invoked, method)
         IN  IF result.raised
             THEN [kind |-> "StrategyError", path |-> path, text |-> <<>>,
                   metadata |-> NoValue, invoked |-> called]
             ELSE IF Strip(result.text) # <<>>
             THEN [kind |-> "ok", path |-> path, text |-> result.text,
                   metadata |-> result.metadata, invoked |-> called]
             ELSE TryMethodsPropagate(path, behaviour, i + 1, called)

\* the for loop of extract_text from position i; invoked lists the
\* strategies called so far
RECURSIVE TryMethods(_, _, _, _)
TryMethods(path, behaviour, i, invoked) ==
    IF i > Len(extraction_methods)
    THEN [kind |-> "RuntimeError", path |-> path, text |-> <<>>,
          metadata |-> NoValue, invoked |-> invoked]
    ELSE LET method == extraction_methods[i]
             result == CallMethod(method, behaviour[method])
             called == Append(invoked, method)
         IN  IF ~result.raised /\ Strip(result.text) # <<>>
             THEN [kind |-> "ok", path |-> path, text |-> result.text,
                   metadata |-> result.metadata, invoked |-> called]
             ELSE TryMethods(path, behaviour, i + 1, called)

\* mutant: the extension test is missing
extract_text_no_suffix_test(path, behaviour) ==
    IF ~path.exists
    THEN [kind |-> "FileNotFoundError", path |-> path, text |-> <<>>,
          metadata |-> NoValue, invoked |-> <<>>]
    ELSE TryMethods(path, behaviour, 1, <<>>)

extract_text(path, behaviour) ==
    IF ~path.exists
    THEN [kind |-> "FileNotFoundError", path |-> path, text |-> <<>>,
          metadata |-> NoValue, invoked |-> <<>>]
    ELSE IF ~(Lower(path.suffix) = PdfSuffix)
    THEN [kind |-> "ValueError", path |-> path, text |-> <<>>,
          metadata |-> NoValue, invoked |-> <<>>]
    ELSE TryMethods(path, behaviour, 1, <<>>)

(***************************************************************************)
(* Inputs of the text extraction chain.                                    *)
(***************************************************************************)
PdfSuffixAnyCase == {PdfSuffix, <<".", "P", "D", "F">>, <<".", "P", "d", "f">>}
Suffixes == PdfSuffixAnyCase \cup {<<".", "t", "x", "t">>, <<".", "p", "d">>, <<>>}
Paths == [name : {"a"}, exists : BOOLEAN, suffix : Suffixes]

PageTexts == {<<>>, <<" ">>, <<"x">>}
PagesOf(n) == {p \in SeqsUpTo(PageTexts, n) : Len(p) = n}
LibBehaviours(n) == {[raises |-> TRUE, pages |-> <<>>]}
                      \cup {[raises |-> FALSE, pages |-> p] : p \in PagesOf(n)}
Methods == {extraction_methods[i] : i \in 1..Len(extraction_methods)}

(***************************************************************************)
(* get_language_model_type (src/src/extractor.py).                         *)
(***************************************************************************)
\* mutant: the substring test is made on the identifier as written
get_language_model_type_case_sensitive(id) ==
    IF StartsWith(id, <<"g", "p", "t", "-">>) \/ Contains(id, <<"g", "p", "t">>)
    THEN "OpenAILanguageModel"
    ELSE "GeminiLanguageModel"

get_language_model_type(id) ==
    IF StartsWith(id, <<"g", "p", "t", "-">>) \/ Contains(Lower(id), <<"g", "p", "t">>)
    THEN "OpenAILanguageModel"
    ELSE IF StartsWith(id, <<"g", "e", "m", "i", "n", "i", "-">>)
              \/ Contains(Lower(id), <<"g", "e", "m", "i", "n", "i">>)
    THEN "GeminiLanguageModel"
    ELSE "GeminiLanguageModel"

\* identifiers are built from fragments, so that a marker can also arise
\* across the boundary of two fragments
Fragments == {<<"g", "p", "t">>, <<"G", "P", "T">>, <<"g", "P">>, <<"t">>, <<"-">>,
              <<"g", "e", "m", "i", "n", "i">>, <<"G", "e", "m", "I", "N", "i">>,
              <<"4">>, <<"g", "e", "m">>, <<"i", "n", "i">>}
ModelIds == {Concat(fs) : fs \in SeqsUpTo(Fragments, MaxFragments)}

(***************************************************************************)
(* StructuredExtractor (src/src/extractor.py).                             *)
(*                                                                         *)
(* A call that can raise yields [raised, error, value]; str(e) is a        *)
(* sequence of message parts.                                              *)
(***************************************************************************)
EmptyDict == [k \in {} |-> NoValue]
DictGet(d, k, default) == IF k \in DOMAIN d THEN d[k] ELSE default
Returned(v) == [raised |-> FALSE, error |-> <<>>, value |-> v]
Raised(e) == [raised |-> TRUE, error |-> e, value |-> NoValue]
KeyError(k) == <<"KeyError", k>>
AttributeError(a) == <<"AttributeError", a>>
TypeError(m) == <<"TypeError", m>>

\* a or b, on values read from the environment
None == "None"
PyOr(a, b) == IF a \in {None, ""} THEN b ELSE a

\* the attributes of a returned item are a dict or None
AttributesDict(d) == [is_none |-> FALSE, entries |-> d]
AttributesNone == [is_none |-> TRUE, entries |-> EmptyDict]

\* lx.data.Extraction(...) for the entries of example_data['extractions']
RECURSIVE ConvertExtractions(_)
ConvertExtractions(exts) ==
    IF exts = <<>> THEN Returned(<<>>)
    ELSE LET ext == Head(exts)
         IN  IF "extraction_class" \notin DOMAIN ext THEN Raised(KeyError("extraction_class"))
             ELSE IF "extraction_text" \notin DOMAIN ext THEN Raised(KeyError("extraction_text"))
             ELSE LET rest == ConvertExtractions(Tail(exts))
                  IN  IF rest.raised THEN rest
                      ELSE Returned(<<[extraction_class |-> ext["extraction_class"],
                                       extraction_text  |-> ext["extraction_text"],
                                       attributes       |-> DictGet(ext, "attributes", EmptyDict)]>>
                                    \o rest.value)

\* the loop over examples_data of extract_with_template
RECURSIVE ConvertExamples(_)
ConvertExamples(examples_data) ==
    IF examples_data = <<>> THEN Returned(<<>>)
    ELSE LET example_data == Head(examples_data)
             extractions  == ConvertExtractions(DictGet(example_data, "extractions", <<>>))
         IN  IF extractions.raised THEN extractions
             ELSE IF "text" \notin DOMAIN example_data THEN Raised(KeyError("text"))
             ELSE LET rest == ConvertExamples(Tail(examples_data))
                  IN  IF rest.raised THEN rest
                      ELSE Returned(<<[text        |-> example_data["text"],
                                       extractions |-> extractions.value]>> \o rest.value)

\* the loop over result.extractions of extract_from_text
RECURSIVE ProcessExtractions(_)
ProcessExtractions(items) ==
    IF items = <<>> THEN Returned(<<>>)
    ELSE LET extraction == Head(items)
         IN  IF "extraction_class" \notin DOMAIN extraction
             THEN Raised(AttributeError("extraction_class"))
             ELSE IF "extraction_text" \notin DOMAIN extraction
             THEN Raised(AttributeError("extraction_text"))
             ELSE IF "attributes" \notin DOMAIN extraction
             THEN Raised(AttributeError("attributes"))
             ELSE LET rest == ProcessExtractions(Tail(items))
                  IN  IF rest.raised THEN rest
                      ELSE Returned(<<[class      |-> extraction["extraction_class"],
                                       text       |-> extraction["extraction_text"],
                                       attributes |-> extraction["attributes"],
                                       confidence |-> DictGet(extraction, "confidence", None)]>>
                                    \o rest.value)

\* the `except Exception as e` result of both extraction methods
FailureResult(e) ==
    [extractions |-> <<>>, metadata |-> [error |-> e], success |-> FALSE, error |-> e]

\* mutant: the key of the backend family of the model comes first
RequestByFamily(self_model_id, txt, prompt_description, examples, extraction_passes, max_workers, max_char_buffer, environ) ==
    [text_or_documents   |-> txt,
     prompt_description  |-> prompt_description,
     examples            |-> examples,
     model_id            |-> self_model_id,
     language_model_type |-> get_language_model_type(self_model_id),
     extraction_passes   |-> extraction_passes,
     max_workers         |-> max_workers,
     max_char_buffer     |-> max_char_buffer,
     api_key             |-> IF get_language_model_type(self_model_id) = "OpenAILanguageModel"
                             THEN PyOr(environ["OPENAI_API_KEY"],
                                       PyOr(environ["GOOGLE_API_KEY"],
                                            environ["LANGEXTRACT_API_KEY"]))
                             ELSE PyOr(environ["GOOGLE_API_KEY"],
                                       PyOr(environ["OPENAI_API_KEY"],
                                            environ["LANGEXTRACT_API_KEY"]))]

\* the arguments of lx.extract
Request(self_model_id, txt, prompt_description, examples, extraction_passes, max_workers, max_char_buffer, environ) ==
    [text_or_documents   |-> txt,
     prompt_description  |-> prompt_description,
     examples            |-> examples,
     model_id            |-> self_model_id,
     language_model_type |-> get_language_model_type(self_model_id),
     extraction_passes   |-> extraction_passes,
     max_workers         |-> max_workers,
     max_char_buffer     |-> max_char_buffer,
     api_key             |-> PyOr(environ["GOOGLE_API_KEY"],
                                  PyOr(environ["OPENAI_API_KEY"],
                                       environ["LANGEXTRACT_API_KEY"]))]

\* mutant: a result without `extractions` is an error
ProcessResultStrict(self_model_id, txt, extraction_passes, result) ==
    IF "extractions" \notin DOMAIN result THEN Raised(AttributeError("extractions"))
    ELSE LET extractions == IF result["extractions"].iterable
                            THEN ProcessExtractions(result["extractions"].items)
                            ELSE Raised(TypeError("object is not iterable"))
         IN  IF extractions.raised THEN extractions
             ELSE Returned([extractions |-> extractions.value,
                            metadata    |-> [model_id          |-> self_model_id,
                                             extraction_passes |-> extraction_passes,
                                             total_extractions |-> Len(extractions.value),
                                             text_length       |-> Len(txt)],
                            success     |-> TRUE])

\* lines 112-132: the result of lx.extract made into the result record
ProcessResult(self_model_id, txt, extraction_passes, result) ==
    LET extractions ==
            IF "extractions" \in DOMAIN result
            THEN IF result["extractions"].iterable
                 THEN ProcessExtractions(result["extractions"].items)
                 ELSE Raised(TypeError("object is not iterable"))
            ELSE Returned(<<>>)
    IN  IF extractions.raised THEN extractions
        ELSE Returned([extractions |-> extractions.value,
                       metadata    |-> [model_id          |-> self_model_id,
                                        extraction_passes |-> extraction_passes,
                                        total_extractions |-> Len(extractions.value),
                                        text_length       |-> Len(txt)],
                       success     |-> TRUE])

\* svc is what the external service does on the call:
\* [raises |-> BOOLEAN, error |-> message, result |-> returned object]
\* The value is [result |-> the record returned, calls |-> the requests made].
extract_from_text(self_model_id, txt, prompt_description, examples, extraction_passes, max_workers, max_char_buffer, environ, svc) ==
    LET request == Request(self_model_id, txt, prompt_description, examples,
                           extraction_passes, max_workers, max_char_buffer, environ)
        outcome == IF svc.raises
                   THEN Raised(<<"LangExtract API error: ">> \o svc.error)
                   ELSE ProcessResult(self_model_id, txt, extraction_passes, svc.result)
    IN  Returned([result |-> IF outcome.raised THEN FailureResult(outcome.error)
                             ELSE outcome.value,
                  calls  |-> <<request>>])

\* the body of the try block of extract_with_template
TemplateExtraction(self_model_id, txt, config, environ, svc) ==
    LET prompt   == DictGet(config, "prompt", <<>>)
        examples == ConvertExamples(DictGet(config, "examples", <<>>))
        extraction_settings == DictGet(config, "settings", EmptyDict)
    IN  IF examples.raised THEN examples
        ELSE extract_from_text(self_model_id, txt, prompt, examples.value,
                               DictGet(extraction_settings, "extraction_passes", 1),
                               DictGet(extraction_settings, "max_workers", 10),
                               DictGet(extraction_settings, "max_char_buffer", 1000),
                               environ, svc)

\* mutant: no `except Exception` around the body
extract_with_template_uncaught(self_model_id, txt, config, environ, svc) ==
    TemplateExtraction(self_model_id, txt, config, environ, svc)

extract_with_template(self_model_id, txt, config, environ, svc) ==
    LET body == TemplateExtraction(self_model_id, txt, config, environ, svc)
    IN  IF body.raised
        THEN Returned([result |-> FailureResult(body.error), calls |-> <<>>])
        ELSE body

(***************************************************************************)
(* StructuredExtractor.save_results.                                       *)
(*                                                                         *)
(* fs maps each existing file to [format, complete, data]; flt is the step *)
(* of this call at which the environment fails, if any.                    *)
(***************************************************************************)
FormatJson == <<"j", "s", "o", "n">>
FormatJsonl == <<"j", "s", "o", "n", "l">>
FormatCsv == <<"c", "s", "v">>
FormatHtml == <<"h", "t", "m", "l">>

WriteFile(fs, path, content) ==
    [f \in DOMAIN fs \cup {path} |-> IF f = path THEN content ELSE fs[f]]

\* open(output_path, 'w') truncates the file before anything is written
Truncated(fmt) == [format |-> fmt, complete |-> FALSE, data |-> <<>>]

\* a JSON document, as json.dump writes the values of a result: None as
\* null, bool as true/false, numbers, strings, lists and dicts
JsonNull == [json |-> "null"]
JsonBool(b) == [json |-> IF b THEN "true" ELSE "false"]
JsonNumber(n) == [json |-> "number", digits |-> n]
JsonString(chars) == [json |-> "string", chars |-> chars]
JsonArray(elements) == [json |-> "array", elements |-> elements]
JsonObject(members) == [json |-> "object", members |-> members]

json_dump_extraction(ext) ==
    JsonObject([key \in DOMAIN ext |->
        CASE key = "attributes" ->
                 IF ext[key].is_none THEN JsonNull
                 ELSE JsonObject([a \in DOMAIN ext[key].entries |->
                                     JsonString(ext[key].entries[a])])
          [] key = "confidence" ->
                 IF ext[key] = None THEN JsonNull ELSE JsonNumber(ext[key])
          [] OTHER -> JsonString(ext[key])])

json_dump_metadata(metadata) ==
    JsonObject([key \in DOMAIN metadata |->
        IF key \in {"model_id", "error"} THEN JsonString(metadata[key])
        ELSE JsonNumber(metadata[key])])

\* mutant: the document holds the extractions and the success flag only
json_dump_without_metadata(res) ==
    JsonObject([key \in DOMAIN res \ {"metadata"} |->
        CASE key = "extractions" ->
                 JsonArray([k \in 1..Len(res[key]) |-> json_dump_extraction(res[key][k])])
          [] key = "success" -> JsonBool(res[key])
          [] OTHER -> JsonString(res[key])])

\* json.dump(results, f, indent=2, ensure_ascii=False) of a result record
json_dump(res) ==
    JsonObject([key \in DOMAIN res |->
        CASE key = "extractions" ->
                 JsonArray([k \in 1..Len(res[key]) |-> json_dump_extraction(res[key][k])])
          [] key = "metadata" -> json_dump_metadata(res[key])
          [] key = "success" -> JsonBool(res[key])
          [] OTHER -> JsonString(res[key])])

\* json.load: the Python value of a document
RECURSIVE json_value(_)
json_value(doc) ==
    CASE doc.json = "null" -> None
      [] doc.json = "true" -> TRUE
      [] doc.json = "false" -> FALSE
      [] doc.json = "number" -> doc.digits
      [] doc.json = "string" -> doc.chars
      [] doc.json = "array" -> [k \in 1..Len(doc.elements) |-> json_value(doc.elements[k])]
      [] doc.json = "object" -> [key \in DOMAIN doc.members |-> json_value(doc.members[key])]

\* the loaded document as a result record: the attributes of an item are a
\* dict or None
json_load_extraction(doc) ==
    [key \in DOMAIN doc.members |->
        IF key = "attributes"
        THEN IF doc.members[key].json = "null" THEN AttributesNone
             ELSE AttributesDict(json_value(doc.members[key]))
        ELSE json_value(doc.members[key])]
json_load(doc) ==
    [key \in DOMAIN doc.members |->
        IF key = "extractions"
        THEN [k \in 1..Len(doc.members[key].elements) |->
                 json_load_extraction(doc.members[key].elements[k])]
        ELSE json_value(doc.members[key])]

\* the rows of flat_data
RECURSIVE FlatData(_)
FlatData(exts) ==
    IF exts = <<>> THEN Returned(<<>>)
    ELSE LET ext == Head(exts)
         IN  IF "class" \notin DOMAIN ext THEN Raised(KeyError("class"))
             ELSE IF "text" \notin DOMAIN ext THEN Raised(KeyError("text"))
             ELSE IF DictGet(ext, "attributes", AttributesDict(EmptyDict)).is_none
             THEN Raised(AttributeError("items"))
             ELSE LET rest == FlatData(Tail(exts))
                      attributes == DictGet(ext, "attributes", AttributesDict(EmptyDict)).entries
                      row == [col \in {<<"class">>, <<"text">>, <<"confidence">>}
                                       \cup {<<"attr_", key>> : key \in DOMAIN attributes} |->
                                 CASE col = <<"class">> -> ext["class"]
                                   [] col = <<"text">> -> ext["text"]
                                   [] col = <<"confidence">> -> DictGet(ext, "confidence", "")
                                   [] OTHER -> attributes[col[2]]]
                  IN  IF rest.raised THEN rest ELSE Returned(<<row>> \o rest.value)

\* pd.DataFrame(flat_data).to_csv(index=False): the columns are those of
\* all rows, a cell a row lacks or whose value is None is written empty
DataFrameColumns(flat_data) == UNION {DOMAIN flat_data[k] : k \in 1..Len(flat_data)}
CsvCell(row, col) == IF col \in DOMAIN row /\ row[col] # None THEN row[col] ELSE ""
ToCsv(flat_data) ==
    [columns |-> DataFrameColumns(flat_data),
     rows    |-> [k \in 1..Len(flat_data) |->
                     [col \in DataFrameColumns(flat_data) |-> CsvCell(flat_data[k], col)]]]

\* one `with open(...)` block: open, then write data
OpenAndWrite(fs, path, fmt, data, flt, writes) ==
    IF flt = "open" THEN [ret |-> FALSE, files |-> fs]
    ELSE IF flt = "write" /\ writes
    THEN [ret |-> FALSE, files |-> WriteFile(fs, path, Truncated(fmt))]
    ELSE [ret |-> TRUE,
          files |-> WriteFile(fs, path, [format |-> fmt, complete |-> TRUE, data |-> data])]

save_results(res, path, fmt, flt, fs) ==
    IF flt = "mkdir" THEN [ret |-> FALSE, files |-> fs]
    ELSE IF Lower(fmt) = FormatJson
    THEN OpenAndWrite(fs, path, "json", json_dump(res), flt, TRUE)
    ELSE IF Lower(fmt) = FormatJsonl
    THEN OpenAndWrite(fs, path, "jsonl", DictGet(res, "extractions", <<>>), flt,
                      DictGet(res, "extractions", <<>>) # <<>>)
    ELSE IF Lower(fmt) = FormatCsv
    THEN IF flt = "import" THEN [ret |-> FALSE, files |-> fs]
         ELSE LET flat_data == FlatData(DictGet(res, "extractions", <<>>))
              IN  IF flat_data.raised THEN [ret |-> FALSE, files |-> fs]
                  ELSE OpenAndWrite(fs, path, "csv", ToCsv(flat_data.value), flt, TRUE)
    ELSE [ret |-> TRUE, files |-> fs]

(***************************************************************************)
(* TemplateManager (src/src/templates.py), load_custom_template and        *)
(* find_pdf_files (src/src/utils.py).                                      *)
(***************************************************************************)
InvoiceExample ==
    [text |-> "INVOICE #INV-2024-001",
     extractions |-> <<[extraction_class |-> "invoice_number",
                        extraction_text |-> "INV-2024-001",
                        attributes |-> [type |-> "identifier"]]>>]

\* a template written out in templates.py
CodeTemplate(name, n_passes, n_workers, n_buffer) ==
    [name |-> name, description |-> "Extract key information", prompt |-> <<"p">>,
     examples |-> <<InvoiceExample>>,
     settings |-> [extraction_passes |-> n_passes, max_workers |-> n_workers,
                   max_char_buffer |-> n_buffer]]

\* a template templates_extension.py loads from templates/<name>_template.json;
\* the files are not part of the source tree, the descriptor stands for their
\* content
JsonTemplate(name) == [name |-> name, file |-> <<"templates/", name, "_template.json">>]

\* self.built_in_templates as __init__ builds it
built_in_templates ==
    [invoice        |-> CodeTemplate("invoice", 2, 5, 800),
     resume         |-> CodeTemplate("resume", 2, 8, 1200),
     research_paper |-> CodeTemplate("research_paper", 3, 15, 1500),
     medical_report |-> CodeTemplate("medical_report", 2, 5, 1000),
     contract       |-> CodeTemplate("contract", 2, 8, 1200),
     receipt        |-> JsonTemplate("receipt"),
     academic_paper |-> JsonTemplate("academic_paper"),
     bank_statement |-> JsonTemplate("bank_statement"),
     business_card  |-> JsonTemplate("business_card"),
     tax_document   |-> JsonTemplate("tax_document")]

\* self_templates is self.built_in_templates of the manager
list_templates(self_templates) == DOMAIN self_templates

\* mutant: an unknown name falls back to the invoice template
get_template_with_fallback(self_templates, template_name) ==
    IF template_name \in DOMAIN self_templates
    THEN Returned(self_templates[template_name])
    ELSE Returned(self_templates["invoice"])

\* the value returned is the registry's own dict, not a copy
get_template(self_templates, template_name) ==
    IF template_name \in DOMAIN self_templates
    THEN Returned(self_templates[template_name])
    ELSE Raised(<<"ValueError", "Template not found", template_name, DOMAIN self_templates>>)

\* file is [exists |-> the path exists, json_ok |-> the file parses,
\*          parsed |-> the parsed document]
required_fields == <<"name", "prompt", "examples">>

\* mutant: the error names the last missing field
load_custom_template_last_missing(file) ==
    IF ~file.exists THEN Raised(<<"FileNotFoundError", "Template file not found">>)
    ELSE IF ~file.json_ok THEN Raised(<<"ValueError", "Invalid JSON in template file">>)
    ELSE LET missing == {k \in 1..Len(required_fields) : required_fields[k] \notin DOMAIN file.parsed}
         IN  IF missing # {}
             THEN Raised(<<"ValueError", "Template missing required field", required_fields[CHOOSE k \in missing : \A j \in missing : k >= j]>>)
             ELSE Returned(file.parsed)

load_custom_template(file) ==
    IF ~file.exists THEN Raised(<<"FileNotFoundError", "Template file not found">>)
    ELSE IF ~file.json_ok THEN Raised(<<"ValueError", "Invalid JSON in template file">>)
    ELSE LET missing == {k \in 1..Len(required_fields) : required_fields[k] \notin DOMAIN file.parsed}
         IN  IF missing # {}
             THEN Raised(<<"ValueError", "Template missing required field", required_fields[CHOOSE k \in missing : \A j \in missing : k <= j]>>)
             ELSE Returned(file.parsed)

\* dir is [top |-> the PDFs of the directory itself, sub |-> those of its
\* subdirectories], each in the order glob yields them; `**/*.pdf` matches
\* the PDFs of the directory itself as well
find_pdf_files(dir) == dir.top \o (dir.top \o dir.sub)

\* seq[:n]
SliceTo(seq, n) ==
    IF n >= 0 THEN SubSeq(seq, 1, IF n < Len(seq) THEN n ELSE Len(seq))
    ELSE SubSeq(seq, 1, IF Len(seq) + n > 0 THEN Len(seq) + n ELSE 0)

\* d[k1][k2] = v
SetSetting(config, key, value) ==
    [config EXCEPT !["settings"] =
        [k \in DOMAIN config["settings"] \cup {key} |->
            IF k = key THEN value ELSE config["settings"][k]]]

(***************************************************************************)
(* batch command (src/pdf_extractor.py).                                   *)
(***************************************************************************)
OutputDir == "./batch_results"
NoPath == <<>>
FileName(pdf_file) == <<pdf_file.stem, ".pdf">>
OutputFile(pdf_file, fmt) == <<OutputDir, pdf_file.stem, "_extracted.", fmt>>
SummaryFile == <<OutputDir, "batch_summary.json">>

\* mutant: without a usable selector the invoice template is used
ResolveTemplateDefault(registry, name, custom, n_passes, n_workers) ==
    LET loaded == IF custom.given THEN load_custom_template(custom.file)
                  ELSE IF name # None THEN get_template(registry, name)
                  ELSE Raised(<<"SystemExit">>)
        chosen == IF loaded.raised THEN registry["invoice"] ELSE loaded.value
    IN  IF "settings" \notin DOMAIN chosen
        THEN [kind |-> "KeyError", config |-> NoValue, registry |-> registry,
              error |-> KeyError("settings")]
        ELSE [kind |-> "ok",
              config |-> SetSetting(SetSetting(chosen, "extraction_passes", n_passes),
                                    "max_workers", n_workers),
              registry |-> registry, error |-> <<>>]

\* extract 171-183, batch 296-311: the template configuration of the run.
\* kind is "ok", "exit" (sys.exit(1) or an exception of the lookup) or
\* "KeyError" (template_config['settings'] on a template without settings).
\* The built-in descriptor is the registry's own dict, so writing the
\* settings into it changes the registry; a custom descriptor is a fresh dict.
ResolveTemplate(registry, name, custom, n_passes, n_workers) ==
    LET loaded == IF custom.given THEN load_custom_template(custom.file)
                  ELSE IF name # None THEN get_template(registry, name)
                  ELSE Raised(<<"SystemExit">>)
    IN  IF loaded.raised
        THEN [kind |-> "exit", config |-> NoValue, registry |-> registry, error |-> loaded.error]
        ELSE IF "settings" \notin DOMAIN loaded.value
        THEN [kind |-> "KeyError", config |-> NoValue, registry |-> registry,
              error |-> KeyError("settings")]
        ELSE LET overridden == SetSetting(SetSetting(loaded.value, "extraction_passes", n_passes),
                                          "max_workers", n_workers)
             IN  [kind |-> "ok", config |-> overridden,
                  registry |-> IF custom.given THEN registry
                               ELSE [registry EXCEPT ![name] = overridden],
                  error |-> <<>>]

\* lines 319-343: the body of the try block for one file; the value is
\* [raised, error, value |-> [outcome, files, calls, entry]]
ProcessFile(pdf_file, config, model, fmt, environ, fs, present, behaviour, svc, flt) ==
    LET path == [name |-> pdf_file.stem, exists |-> present, suffix |-> PdfSuffix]
        extracted == extract_text(path, behaviour)
    IN  IF extracted.kind # "ok" THEN Raised(<<extracted.kind, FileName(pdf_file)>>)
        ELSE IF extracted.text = <<>>
        THEN Returned([outcome |-> [file |-> FileName(pdf_file), status |-> "failed",
                                    error |-> <<"Failed to extract text from PDF">>],
                       files |-> fs, calls |-> <<>>,
                       entry |-> [file |-> pdf_file, text_kind |-> "empty", service_calls |-> 0,
                                  results_success |-> "-", save_ret |-> "-"]])
        ELSE LET extraction == extract_with_template(model, extracted.text, config, environ, svc)
                 output_file == OutputFile(pdf_file, fmt)
                 saved == save_results(extraction.value.result, output_file, fmt, flt, fs)
             IN  Returned([outcome |-> [file |-> FileName(pdf_file),
                                        status |-> IF saved.ret THEN "success" ELSE "save_failed",
                                        extractions |-> Len(DictGet(extraction.value.result, "extractions", <<>>)),
                                        output_file |-> IF saved.ret THEN output_file ELSE NoPath],
                           files |-> saved.files,
                           calls |-> extraction.value.calls,
                           entry |-> [file |-> pdf_file, text_kind |-> "ok",
                                      service_calls |-> Len(extraction.value.calls),
                                      results_success |-> IF extraction.value.result["success"] THEN "True" ELSE "False",
                                      save_ret |-> IF saved.ret THEN "True" ELSE "False"]])

\* mutant: the loop body without `except Exception`
batch_iteration_uncaught(pdf_file, config, model, fmt, environ, fs, present, behaviour, svc, flt) ==
    ProcessFile(pdf_file, config, model, fmt, environ, fs, present, behaviour, svc, flt)

\* mutant: the status does not depend on what save_results returned
batch_iteration_always_success(pdf_file, config, model, fmt, environ, fs, present, behaviour, svc, flt) ==
    LET body == batch_iteration_uncaught(pdf_file, config, model, fmt, environ, fs, present, behaviour, svc, flt)
    IN  IF body.raised
        THEN Returned([outcome |-> [file |-> FileName(pdf_file), status |-> "error",
                                    error |-> body.error],
                       files |-> fs, calls |-> <<>>,
                       entry |-> [file |-> pdf_file, text_kind |-> body.error[1], service_calls |-> 0,
                                  results_success |-> "-", save_ret |-> "-"]])
        ELSE Returned([body.value EXCEPT !.outcome["status"] = "success"])

\* lines 317-350: one iteration of the loop over pdf_files
batch_iteration(pdf_file, config, model, fmt, environ, fs, present, behaviour, svc, flt) ==
    LET body == ProcessFile(pdf_file, config, model, fmt, environ, fs, present, behaviour, svc, flt)
    IN  IF body.raised
        THEN Returned([outcome |-> [file |-> FileName(pdf_file), status |-> "error",
                                    error |-> body.error],
                       files |-> fs, calls |-> <<>>,
                       entry |-> [file |-> pdf_file, text_kind |-> body.error[1], service_calls |-> 0,
                                  results_success |-> "-", save_ret |-> "-"]])
        ELSE body

(***************************************************************************)
(* extract command (src/pdf_extractor.py), ConfigManager.merge_with_cli_args*)
(* (src/src/config_manager.py), validate_output_format,                     *)
(* get_recommended_model_for_provider (src/src/utils.py) and                *)
(* StructuredExtractor.generate_visualization.                             *)
(*                                                                         *)
(* A path of the extract command is [stem, ext]; the empty path stands for *)
(* an option that was not given.                                           *)
(***************************************************************************)
NoOutput == [stem |-> <<>>, ext |-> <<>>]
with_suffix(path, ext) == [path EXCEPT !.ext = ext]
NotGiven == [given |-> FALSE, file |-> [exists |-> FALSE, json_ok |-> FALSE, parsed |-> EmptyDict]]

Gemini25Flash == <<"g", "e", "m", "i", "n", "i", "-", "2", ".", "5", "-", "f", "l", "a", "s", "h">>
Gpt35Turbo == <<"g", "p", "t", "-", "3", ".", "5", "-", "t", "u", "r", "b", "o">>

get_recommended_model_for_provider(environ) ==
    IF environ["OPENAI_API_KEY"] \notin {None, ""} THEN Gpt35Turbo
    ELSE Gemini25Flash

\* `a or b` on int and on str-as-sequence and path operands
PyOrInt(a, b) == IF a = 0 THEN b ELSE a
PyOrSeq(a, b) == IF a = <<>> THEN b ELSE a
PyOrPath(a, b) == IF a = NoOutput THEN b ELSE a

\* cfg is self.config, cli the keyword arguments
merge_with_cli_args(cfg, cli) ==
    [template        |-> PyOr(cli.template, cfg.template),
     custom_template |-> IF cli.custom_template.given THEN cli.custom_template
                         ELSE cfg.custom_template,
     model           |-> PyOrSeq(cli.model, cfg.model),
     passes          |-> PyOrInt(cli.passes, cfg.passes),
     workers         |-> PyOrInt(cli.workers, cfg.workers),
     format          |-> PyOrSeq(cli.format, cfg.format),
     output          |-> PyOrPath(cli.output, cfg.directory),
     visualize       |-> cli.visualize]

supported_formats == {FormatJson, FormatJsonl, FormatCsv, FormatHtml}

\* mutant: the name is lower-cased and not trimmed
validate_output_format_no_strip(format_name) ==
    LET normalized == Lower(format_name)
    IN  IF normalized \notin supported_formats
        THEN Raised(<<"ValueError", "Unsupported format", normalized>>)
        ELSE Returned(normalized)

validate_output_format(format_name) ==
    LET normalized == Strip(Lower(format_name))
    IN  IF normalized \notin supported_formats
        THEN Raised(<<"ValueError", "Unsupported format", normalized>>)
        ELSE Returned(normalized)

\* os.path.splitext: the extension starts at the last dot of the last path
\* component, unless only dots precede it there
LastIndex(p, c) ==
    IF \E i \in 1..Len(p) : p[i] = c
    THEN CHOOSE i \in 1..Len(p) : p[i] = c /\ \A j \in (i + 1)..Len(p) : p[j] # c
    ELSE 0
splitext(p) ==
    LET sepIndex == LastIndex(p, "/")
        dotIndex == LastIndex(p, ".")
    IN  IF dotIndex > sepIndex /\ \E k \in (sepIndex + 1)..(dotIndex - 1) : p[k] # "."
        THEN [name |-> SubSeq(p, 1, dotIndex - 1), ext |-> SubSeq(p, dotIndex, Len(p))]
        ELSE [name |-> p, ext |-> <<>>]

\* sanitize_filename (src/src/utils.py 283-303)
invalid_chars == {"<", ">", ":", "\"", "/", "\\", "|", "?", "*"}
LengthLimit == 200
sanitize_filename(filename) ==
    LET replaced == [i \in 1..Len(filename) |->
                        IF filename[i] \in invalid_chars THEN "_" ELSE filename[i]]
    IN  IF Len(replaced) > LengthLimit
        THEN LET parts == splitext(replaced)
             IN  SliceTo(parts.name, LengthLimit - Len(parts.ext)) \o parts.ext
        ELSE replaced

\* viz is what lx.visualize and the write of the html file do
generate_visualization(jsonl_path, output_html, viz, fs) ==
    IF viz = "visualize" \/ jsonl_path \notin DOMAIN fs THEN [ret |-> None, files |-> fs]
    ELSE IF viz = "open" THEN [ret |-> None, files |-> fs]
    ELSE IF viz = "write"
    THEN [ret |-> None, files |-> WriteFile(fs, output_html, Truncated("html"))]
    ELSE [ret |-> "output_html",
          files |-> WriteFile(fs, output_html,
                              [format |-> "html", complete |-> TRUE, data |-> jsonl_path])]

\* the end of the command by sys.exit(1) at a step
ExitAt(reason, run) == [run EXCEPT !.kind = "exit", !.log = Append(run.log, reason)]

\* lines 80-183 of extract: the click.Path(exists=True) checks of the
\* argument and of --custom-template, then from the merge of the
\* configuration to the override of the template settings.  present tells
\* whether the file is still there when extract_text looks for it.
extract_setup(cli, cfg, valid, environ, registry, path, present, behaviour) ==
    LET merged == merge_with_cli_args(cfg, cli)
        model  == IF merged.model = Gemini25Flash
                  THEN get_recommended_model_for_provider(environ)
                  ELSE merged.model
        fmt    == validate_output_format(merged.format)
        run    == [kind |-> "ok", log |-> <<>>, merged |-> merged, model |-> merged.model,
                   format |-> merged.format, text_result |-> NoValue, text |-> NoValue,
                   template_config |-> NoValue, registry |-> registry]
    IN  IF ~path.exists \/ (cli.custom_template.given /\ ~cli.custom_template.file.exists)
        THEN ExitAt("exit:usage", run)
        ELSE IF ~valid THEN ExitAt("exit:api_key", run)
        ELSE IF fmt.raised THEN ExitAt("exit:format", [run EXCEPT !.model = model])
        ELSE IF merged.passes < 1 \/ merged.passes > 3
        THEN ExitAt("exit:passes", [run EXCEPT !.model = model, !.format = fmt.value])
        ELSE LET extracted == extract_text([path EXCEPT !.exists = present], behaviour)
                 checked == [run EXCEPT !.model = model, !.format = fmt.value,
                                        !.log = <<"extract_text">>,
                                        !.text_result = extracted]
             IN  IF extracted.kind # "ok" THEN ExitAt("exit:extract_text", checked)
                 ELSE IF extracted.text = <<>> THEN ExitAt("exit:no_text", checked)
                 ELSE LET resolved == ResolveTemplate(registry, merged.template,
                                                      merged.custom_template,
                                                      merged.passes, merged.workers)
                      IN  IF resolved.kind # "ok"
                          THEN ExitAt("exit:template", [checked EXCEPT !.text = extracted.text])
                          ELSE [checked EXCEPT !.text = extracted.text,
                                               !.template_config = resolved.config,
                                               !.registry = resolved.registry]

\* lines 212-215: the generated output name
DefaultOutput(path, name, custom, fmt) ==
    [stem |-> <<path.name, "_",
                IF custom.given THEN PyOr(name, "custom_template_stem") ELSE "custom",
                "_extracted">>,
     ext  |-> fmt]

\* lines 211-245 of extract: persistence and visualization.  flt and flt2
\* are the failures of the two save_results calls, viz that of the
\* visualization.
extract_save(res, out, path, name, custom, fmt, want_html, fs, flt, flt2, viz) ==
    LET target == IF out = NoOutput THEN DefaultOutput(path, name, custom, fmt) ELSE out
        saved  == save_results(res, target, fmt, flt, fs)
    IN  IF ~saved.ret
        THEN [kind |-> "exit", output |-> target, success |-> FALSE, files |-> saved.files,
              log |-> <<"save_results", "exit:save">>]
        ELSE IF want_html /\ fmt # FormatHtml
        THEN LET jsonl == save_results(res, with_suffix(target, FormatJsonl), FormatJsonl,
                                       flt2, saved.files)
                 html  == generate_visualization(with_suffix(target, FormatJsonl),
                                                 with_suffix(target, FormatHtml), viz,
                                                 jsonl.files)
             IN  [kind |-> "done", output |-> target, success |-> TRUE, files |-> html.files,
                  log |-> <<"save_results", "save_results", "generate_visualization">>]
        ELSE [kind |-> "done", output |-> target, success |-> TRUE, files |-> saved.files,
              log |-> <<"save_results">>]

(***************************************************************************)
(* Inputs of the extraction call.                                          *)
(***************************************************************************)
GoodExt == [extraction_class |-> "c", extraction_text |-> "t", attributes |-> [k |-> "v"]]
ExtNoAttributes == [extraction_class |-> "c", extraction_text |-> "t"]
ExtNoClass == [extraction_text |-> "t"]
ExtNoText == [extraction_class |-> "c"]
ExampleRecords == {[text |-> "e", extractions |-> <<GoodExt>>],
                   [text |-> "e", extractions |-> <<ExtNoAttributes, GoodExt>>],
                   [text |-> "e"],
                   [extractions |-> <<GoodExt>>],
                   [text |-> "e", extractions |-> <<ExtNoClass>>],
                   [text |-> "e", extractions |-> <<GoodExt, ExtNoText>>]}
ExampleLists == SeqsUpTo(ExampleRecords, MaxExamples)
TemplateSettings == [extraction_passes |-> 2, max_workers |-> 5, max_char_buffer |-> 800]
TemplateConfigs ==
    {[name |-> "custom", prompt |-> <<"p">>, examples |-> ex] : ex \in ExampleLists}
    \cup {[name |-> "invoice", prompt |-> <<"p">>, examples |-> ex,
           settings |-> TemplateSettings] : ex \in ExampleLists}
    \cup {[name |-> "custom", examples |-> ex, settings |-> EmptyDict] : ex \in ExampleLists}

\* the objects the service can return
ItemObjects == {[extraction_class |-> "c", extraction_text |-> "t",
                 attributes |-> AttributesDict([k |-> "v"]), confidence |-> "0.9"],
                [extraction_class |-> "d", extraction_text |-> "u",
                 attributes |-> AttributesNone],
                [extraction_text |-> "t", attributes |-> AttributesDict([j |-> "w"])],
                [extraction_class |-> "c", attributes |-> AttributesNone],
                [extraction_class |-> "c", extraction_text |-> "t"],
                [extraction_class |-> "e", extraction_text |-> "w",
                 attributes |-> AttributesDict([j |-> "w"])]}
ResultObjects ==
    {EmptyDict, [extractions |-> [iterable |-> FALSE, items |-> <<>>]]}
    \cup {[extractions |-> [iterable |-> TRUE, items |-> its]] : its \in SeqsUpTo(ItemObjects, MaxItems)}
ServiceBehaviours ==
    {[raises |-> TRUE, error |-> <<"quota">>, result |-> EmptyDict]}
    \cup {[raises |-> FALSE, error |-> <<>>, result |-> r] : r \in ResultObjects}

Texts == {<<"x">>, <<"x", "y">>}
Environs == {[GOOGLE_API_KEY |-> "kg", OPENAI_API_KEY |-> None, LANGEXTRACT_API_KEY |-> None],
             [GOOGLE_API_KEY |-> "", OPENAI_API_KEY |-> "ko", LANGEXTRACT_API_KEY |-> "kl"],
             [GOOGLE_API_KEY |-> None, OPENAI_API_KEY |-> None, LANGEXTRACT_API_KEY |-> None]}
ExtractorEnvirons ==
    Environs \cup {[GOOGLE_API_KEY |-> "kg", OPENAI_API_KEY |-> "ko", LANGEXTRACT_API_KEY |-> "kl"]}
ExtractorModels == {<<"g", "p", "t", "-", "4">>, <<"g", "e", "m", "i", "n", "i", "-", "4">>}

\* the records extract_from_text can return
ResultRecords ==
    {extract_from_text(<<"g", "p", "t">>, <<"x">>, <<"p">>, <<>>, 1, 10, 1000,
                       CHOOSE e \in Environs : TRUE, svc).value.result :
        svc \in ServiceBehaviours}

Formats == {FormatJson, <<"J", "S", "O", "N">>, FormatJsonl, FormatCsv, FormatHtml,
            <<"x", "m", "l">>}
Faults == {"none", "mkdir", "open", "write", "import"}
OldFile == [format |-> "old", complete |-> TRUE, data |-> <<>>]

\* inputs of the batch command
Stems == {"a", "b"}
PdfFiles == [dir : {".", "sub"}, stem : Stems]
Directories ==
    {[top |-> t, sub |-> u] :
        t \in {<<>>, <<[dir |-> ".", stem |-> "a"]>>,
                <<[dir |-> ".", stem |-> "a"]>> \o <<[dir |-> ".", stem |-> "b"]>>},
        u \in {<<>>, <<[dir |-> "sub", stem |-> "a"]>>, <<[dir |-> "sub", stem |-> "b"]>>}}
MaxFilesOptions == {0, 2, -1}
CustomTemplates ==
    {[given |-> FALSE, file |-> [exists |-> FALSE, json_ok |-> FALSE, parsed |-> EmptyDict]],
     [given |-> TRUE, file |-> [exists |-> TRUE, json_ok |-> FALSE, parsed |-> EmptyDict]],
     [given |-> TRUE,
      file |-> [exists |-> TRUE, json_ok |-> TRUE,
                parsed |-> [name |-> "custom", prompt |-> <<"p">>,
                            examples |-> <<[text |-> "e"], [extractions |-> <<GoodExt>>]>>,
                            settings |-> EmptyDict]]],
     [given |-> TRUE,
      file |-> [exists |-> TRUE, json_ok |-> TRUE,
                parsed |-> [name |-> "custom", prompt |-> <<"p">>, examples |-> <<>>]]],
     [given |-> TRUE,
      file |-> [exists |-> TRUE, json_ok |-> TRUE, parsed |-> [name |-> "custom", examples |-> <<>>]]]}
TemplateNames == {None, "invoice", "nonexistent_template"}
\* --template and --custom-template as given together
TemplateOptions ==
    {<<name, custom>> \in TemplateNames \X CustomTemplates :
        custom.given => name \in {None, "invoice"}}
BatchFormats == {FormatJson, FormatCsv, <<"x", "m", "l">>}
BatchLibs ==
    {[m \in Methods |-> [raises |-> TRUE, pages |-> <<>>]],
     [m \in Methods |-> [raises |-> FALSE, pages |-> <<<<" ">>>>]],
     [m \in Methods |-> IF m = "pymupdf" THEN [raises |-> FALSE, pages |-> <<<<"x">>>>]
                        ELSE [raises |-> TRUE, pages |-> <<>>]]}
BatchServices ==
    {svc \in ServiceBehaviours :
        \/ svc.raises
        \/ /\ "extractions" \in DOMAIN svc.result
           /\ Len(svc.result["extractions"].items) = 1
           /\ DOMAIN svc.result["extractions"].items[1]
                  = {"extraction_class", "extraction_text", "attributes", "confidence"}}
BatchFaults == {"none", "write"}

(***************************************************************************)
(* Variables a specification does not use keep NoValue.                    *)
(***************************************************************************)
BatchIdle ==
    /\ api_valid = NoValue /\ directory = NoValue /\ max_files = NoValue
    /\ template = NoValue /\ custom_template = NoValue /\ passes = NoValue
    /\ workers = NoValue /\ pdf_files = NoValue /\ idx = NoValue
    /\ results_summary = NoValue /\ log = NoValue
SaveIdle ==
    /\ output_path = NoValue /\ format = NoValue /\ fault = NoValue
    /\ files = NoValue /\ success = NoValue
TemplatesIdle == template_manager = NoValue /\ call_result = NoValue
CliIdle ==
    /\ command = NoValue /\ cli_args = NoValue /\ config_manager = NoValue
    /\ visualize = NoValue /\ output = NoValue
ChainIdle == pdf_path = NoValue /\ libs = NoValue /\ text_result = NoValue
DispatchIdle == model_id = NoValue /\ language_model_type = NoValue
ExtractorIdle ==
    /\ text = NoValue /\ template_config = NoValue /\ env = NoValue
    /\ service = NoValue /\ results = NoValue /\ calls = NoValue

(***************************************************************************)
(* SpecChain: one call of PDFProcessor.extract_text.                       *)
(***************************************************************************)
InitChain ==
    /\ pc = "call"
    /\ pdf_path \in Paths
    /\ \E n \in 0..MaxPages : libs \in [Methods -> LibBehaviours(n)]
    /\ text_result = NoValue
    /\ DispatchIdle /\ ExtractorIdle /\ SaveIdle /\ BatchIdle /\ TemplatesIdle /\ CliIdle

ExtractText ==
    /\ pc = "call"
    /\ text_result' = extract_text(pdf_path, libs)
    /\ pc' = "returned"
    /\ UNCHANGED <<pdf_path, libs, dispatchVars, extractorVars, saveVars, batchVars,
                   templateVars, cliVars>>

NextChain == ExtractText

SpecChain == InitChain /\ [][NextChain]_vars

\* what strategy number i yields on the PDF of this run
Yield(i) == CallMethod(extraction_methods[i], libs[extraction_methods[i]])
Yields(i) == ~Yield(i).raised /\ Strip(Yield(i).text) # <<>>
ValidPath == pdf_path.exists /\ pdf_path.suffix \in PdfSuffixAnyCase
Strategies == 1..Len(extraction_methods)

\* C1: if at least one strategy yields non-empty trimmed text, extract_text
\* returns the output of the first such strategy in the order pdfplumber,
\* pymupdf, pypdf2, tagged with that strategy, and no later strategy is invoked.
C1_FirstSuccessWins ==
    (pc = "returned" /\ ValidPath) =>
        \A i \in Strategies :
            (Yields(i) /\ \A j \in 1..(i - 1) : ~Yields(j)) =>
                /\ text_result.kind = "ok"
                /\ text_result.text = Yield(i).text
                /\ text_result.metadata.method = extraction_methods[i]
                /\ text_result.invoked = SubSeq(extraction_methods, 1, i)

\* the first strategy fails, the second succeeds, the third would yield more text
C1_Witness ==
    /\ pc = "returned" /\ ValidPath
    /\ ~Yields(1) /\ Yields(2) /\ Yields(3)
    /\ Len(Yield(3).text) > Len(Yield(2).text)
    /\ text_result.metadata.method = "pymupdf"

\* C2: when every strategy raises or returns text that is empty after
\* trimming, extract_text fails with the exhaustion error naming the file, and
\* it never returns a document whose text is empty or whitespace-only.
C2_ExhaustedFails ==
    pc = "returned" =>
        /\ (ValidPath /\ \A i \in Strategies : ~Yields(i)) =>
               (text_result.kind = "RuntimeError" /\ text_result.path = pdf_path)
        /\ text_result.kind = "ok" =>
               \E k \in 1..Len(text_result.text) : text_result.text[k] \notin Whitespace

\* one strategy raises and another returns without any text on a blank page
C2_Witness ==
    /\ pc = "returned" /\ text_result.kind = "RuntimeError"
    /\ \E i \in Strategies : Yield(i).raised
    /\ \E i \in Strategies :
          /\ ~Yield(i).raised /\ Yield(i).text = <<>>
          /\ \E k \in 1..Len(libs[extraction_methods[i]].pages) :
                libs[extraction_methods[i]].pages[k] = <<" ">>

\* C10: a missing path is rejected with the not-found error, an existing path
\* whose extension is not .pdf in any letter case with the invalid-input error,
\* and in both cases no strategy has been invoked.
C10_RejectedBeforeStrategies ==
    pc = "returned" =>
        /\ ~pdf_path.exists =>
               (text_result.kind = "FileNotFoundError" /\ text_result.invoked = <<>>)
        /\ (pdf_path.exists /\ pdf_path.suffix \notin PdfSuffixAnyCase) =>
               (text_result.kind = "ValueError" /\ text_result.invoked = <<>>)

\* an existing .txt file whose strategies would all have produced text
C10_Witness ==
    /\ pc = "returned" /\ pdf_path.exists /\ pdf_path.suffix = <<".", "t", "x", "t">>
    /\ \A i \in Strategies : Yields(i)
    /\ text_result.kind = "ValueError"

\* C11: a strategy that raises is a soft failure: its exception never leaves
\* extract_text (the call returns a document or fails with the exhaustion
\* error), and when no earlier strategy has succeeded the next strategy in
\* the order is still invoked.
C11_RaiseIsSoftFailure ==
    (pc = "returned" /\ ValidPath) =>
        /\ text_result.kind \in {"ok", "RuntimeError"}
        /\ \A i \in Strategies :
              (Yield(i).raised /\ \A j \in 1..(i - 1) : ~Yields(j)) =>
                  /\ Len(text_result.invoked) >= i
                  /\ i < Len(extraction_methods) =>
                        /\ Len(text_result.invoked) > i
                        /\ text_result.invoked[i + 1] = extraction_methods[i + 1]
                  /\ i = Len(extraction_methods) => text_result.kind = "RuntimeError"

\* the first two strategies raise and the third returns the document
C11_Witness ==
    /\ pc = "returned" /\ ValidPath
    /\ Yield(1).raised /\ Yield(2).raised /\ Yields(3)
    /\ text_result.kind = "ok" /\ text_result.metadata.method = "pypdf2"
    /\ text_result.invoked = extraction_methods

\* the positions of the page headers in a text, and the page a header names
HeaderPositions(txt) ==
    {p \in 1..Len(txt) : \E n \in 1..Len(PageHeaders) : txt[p] = PageHeaders[n]}
PageNumberAt(txt, p) == CHOOSE n \in 1..Len(PageHeaders) : txt[p] = PageHeaders[n]

\* txt is made of pages of the document, each as header, newline and the
\* page's text, in ascending order and separated by a blank line
PageTagged(txt, pages) ==
    /\ txt # <<>> => 1 \in HeaderPositions(txt)
    /\ \A p \in HeaderPositions(txt) :
          LET n == PageNumberAt(txt, p)
              last == p + 1 + Len(pages[n])
          IN  /\ n <= Len(pages)
              /\ last <= Len(txt)
              /\ txt[p + 1] = "\n"
              /\ SubSeq(txt, p + 2, last) = pages[n]
              /\ \/ last = Len(txt)
                 \/ /\ last + 3 <= Len(txt)
                    /\ txt[last + 1] = "\n" /\ txt[last + 2] = "\n"
                    /\ last + 3 \in HeaderPositions(txt)
    /\ \A p, q \in HeaderPositions(txt) :
          p < q => PageNumberAt(txt, p) < PageNumberAt(txt, q)

\* C24: in the text returned by any strategy, pages appear in ascending
\* document order, each included page is introduced by the header
\* `--- Page N ---` with N its 1-based position in the document, included
\* pages are separated by a blank line, and the reported page count is the
\* document's total page count even when pages without text are left out.
C24_PagesTaggedInOrder ==
    /\ \A i \in Strategies :
          ~Yield(i).raised =>
              /\ PageTagged(Yield(i).text, libs[extraction_methods[i]].pages)
              /\ Yield(i).metadata.pages = Len(libs[extraction_methods[i]].pages)
              /\ Yield(i).metadata.method = extraction_methods[i]
    /\ (pc = "returned" /\ text_result.kind = "ok") =>
          /\ PageTagged(text_result.text, libs[text_result.metadata.method].pages)
          /\ text_result.metadata.pages = Len(libs[text_result.metadata.method].pages)

\* the first page of a two-page document has no text: the returned text
\* starts with the header of page 2 and two pages are reported
C24_Witness ==
    /\ pc = "returned" /\ text_result.kind = "ok"
    /\ text_result.text = <<"--- Page 2 ---", "\n", "x">>
    /\ text_result.metadata.pages = 2
    /\ \E i \in Strategies :
          /\ ~Yield(i).raised
          /\ HeaderPositions(Yield(i).text) = {1, 6}

(***************************************************************************)
(* SpecDispatch: one call of get_language_model_type.                      *)
(***************************************************************************)
InitDispatch ==
    /\ pc = "call"
    /\ model_id \in ModelIds
    /\ language_model_type = NoValue
    /\ ChainIdle /\ ExtractorIdle /\ SaveIdle /\ BatchIdle /\ TemplatesIdle /\ CliIdle

Dispatch ==
    /\ pc = "call"
    /\ language_model_type' = get_language_model_type(model_id)
    /\ pc' = "returned"
    /\ UNCHANGED <<model_id, chainVars, extractorVars, saveVars, batchVars,
                   templateVars, cliVars>>

NextDispatch == Dispatch

SpecDispatch == InitDispatch /\ [][NextDispatch]_vars

\* the identifier has the letters g, p, t in a row, in any letter case
HasChatMarker(id) ==
    \E k \in 1..(Len(id) - 2) :
        /\ id[k] \in {"g", "G"} /\ id[k + 1] \in {"p", "P"} /\ id[k + 2] \in {"t", "T"}

HasGenerativeMarker(id) ==
    \E k \in 1..(Len(id) - 5) :
        /\ id[k] \in {"g", "G"} /\ id[k + 1] \in {"e", "E"} /\ id[k + 2] \in {"m", "M"}
        /\ id[k + 3] \in {"i", "I"} /\ id[k + 4] \in {"n", "N"} /\ id[k + 5] \in {"i", "I"}

\* C7: an identifier containing `gpt` in any letter case routes to the OpenAI
\* family, also when it contains `gemini` as well; every other identifier
\* routes to the Gemini family.
C7_DispatchByMarker ==
    pc = "returned" =>
        language_model_type =
            IF HasChatMarker(model_id) THEN "OpenAILanguageModel" ELSE "GeminiLanguageModel"

\* an identifier with both markers, the chat-style one in upper case and
\* after the generative one
C7_Witness ==
    /\ pc = "returned"
    /\ HasGenerativeMarker(model_id) /\ HasChatMarker(model_id)
    /\ ~Contains(model_id, <<"g", "p", "t">>)
    /\ language_model_type = "OpenAILanguageModel"

(***************************************************************************)
(* SpecExtractor: one call of StructuredExtractor.extract_with_template.   *)
(* results is the returned record, or NoValue when the call raised.        *)
(***************************************************************************)
InitExtractor ==
    /\ pc = "call"
    /\ model_id \in ExtractorModels
    /\ language_model_type = NoValue
    /\ text \in Texts
    /\ template_config \in TemplateConfigs
    /\ env \in ExtractorEnvirons
    /\ service \in ServiceBehaviours
    /\ results = NoValue
    /\ calls = <<>>
    /\ ChainIdle /\ SaveIdle /\ BatchIdle /\ TemplatesIdle /\ CliIdle

ExtractWithTemplate ==
    /\ pc = "call"
    /\ LET out == extract_with_template(model_id, text, template_config, env, service)
       IN  IF out.raised
           THEN pc' = "raised" /\ results' = NoValue /\ calls' = calls
           ELSE pc' = "returned" /\ results' = out.value.result /\ calls' = out.value.calls
    /\ UNCHANGED <<model_id, language_model_type, text, template_config, env, service,
                   chainVars, saveVars, batchVars, templateVars, cliVars>>

NextExtractor == ExtractWithTemplate

SpecExtractor == InitExtractor /\ [][NextExtractor]_vars

\* an example of the template lacks a key the conversion reads
BrokenExtraction(ext) ==
    "extraction_class" \notin DOMAIN ext \/ "extraction_text" \notin DOMAIN ext
BrokenExample(ex) ==
    \/ "text" \notin DOMAIN ex
    \/ /\ "extractions" \in DOMAIN ex
       /\ \E k \in 1..Len(ex["extractions"]) : BrokenExtraction(ex["extractions"][k])
BrokenTemplate(config) ==
    /\ "examples" \in DOMAIN config
    /\ \E k \in 1..Len(config["examples"]) : BrokenExample(config["examples"][k])

\* C5: extract_with_template never raises; it returns a result record, and
\* when an example lacks a key or the service raises the record has
\* success=false; every record with success=false has an error message,
\* extractions=[] and metadata holding only the error.
C5_NeverRaises ==
    /\ pc # "raised"
    /\ pc = "returned" =>
          /\ {"extractions", "metadata", "success"} \subseteq DOMAIN results
          /\ (BrokenTemplate(template_config) \/ service.raises) => ~results["success"]
          /\ ~results["success"] =>
                /\ "error" \in DOMAIN results
                /\ results["error"] # <<>>
                /\ results["extractions"] = <<>>
                /\ DOMAIN results["metadata"] = {"error"}
                /\ results["metadata"]["error"] = results["error"]

\* an example without `text` is met before the service would have been called
C5_Witness ==
    /\ pc = "returned"
    /\ BrokenTemplate(template_config) /\ ~service.raises
    /\ calls = <<>>
    /\ ~results["success"] /\ results["error"] = KeyError("text")

\* the returned object lacks the shape the pipeline reads
NoExtractionsAttribute(obj) == "extractions" \notin DOMAIN obj
MalformedExtractions(obj) ==
    /\ "extractions" \in DOMAIN obj
    /\ \/ ~obj["extractions"].iterable
       \/ \E k \in 1..Len(obj["extractions"].items) :
             {"extraction_class", "extraction_text", "attributes"}
                 \ DOMAIN obj["extractions"].items[k] # {}
ServiceReturned == pc = "returned" /\ Len(calls) = 1 /\ ~service.raises

NonEmpty(value) == value # None /\ value # ""

\* C27: the credential passed to the external call is the first non-empty
\* value among GOOGLE_API_KEY, OPENAI_API_KEY, LANGEXTRACT_API_KEY in that
\* order, passed explicitly on every call; the choice does not depend on the
\* backend family the model identifier was dispatched to.
C27_FirstNonEmptyKey ==
    pc = "returned" =>
        \A k \in 1..Len(calls) :
            /\ "api_key" \in DOMAIN calls[k]
            /\ NonEmpty(env["GOOGLE_API_KEY"]) => calls[k].api_key = env["GOOGLE_API_KEY"]
            /\ (~NonEmpty(env["GOOGLE_API_KEY"]) /\ NonEmpty(env["OPENAI_API_KEY"])) =>
                   calls[k].api_key = env["OPENAI_API_KEY"]
            /\ (~NonEmpty(env["GOOGLE_API_KEY"]) /\ ~NonEmpty(env["OPENAI_API_KEY"])
                  /\ NonEmpty(env["LANGEXTRACT_API_KEY"])) =>
                   calls[k].api_key = env["LANGEXTRACT_API_KEY"]

\* a model of the OpenAI family is called with the Google key, which comes
\* first, although the OpenAI key is set
C27_Witness ==
    /\ pc = "returned" /\ Len(calls) = 1
    /\ calls[1].language_model_type = "OpenAILanguageModel"
    /\ NonEmpty(env["GOOGLE_API_KEY"]) /\ NonEmpty(env["OPENAI_API_KEY"])
    /\ calls[1].api_key = env["GOOGLE_API_KEY"]

(***************************************************************************)
(* SpecSave: one call of StructuredExtractor.save_results.                 *)
(***************************************************************************)
InitSave ==
    /\ pc = "call"
    /\ results \in ResultRecords
    /\ output_path \in {"out/a"}
    /\ format \in Formats
    /\ fault \in Faults
    /\ files \in {EmptyDict, [f \in {"out/a"} |-> OldFile]}
    /\ success = NoValue
    /\ ChainIdle /\ DispatchIdle /\ BatchIdle /\ TemplatesIdle /\ CliIdle
    /\ text = NoValue /\ template_config = NoValue /\ env = NoValue
    /\ service = NoValue /\ calls = NoValue

SaveResults ==
    /\ pc = "call"
    /\ LET out == save_results(results, output_path, format, fault, files)
       IN  success' = out.ret /\ files' = out.files
    /\ pc' = "returned"
    /\ UNCHANGED <<results, output_path, format, fault, chainVars, dispatchVars,
                   text, template_config, env, service, calls, batchVars,
                   templateVars, cliVars>>

NextSave == SaveResults

SpecSave == InitSave /\ [][NextSave]_vars

\* the output of this call is in place at output_path
OutputWritten ==
    /\ output_path \in DOMAIN files
    /\ files[output_path].format # "old"
    /\ files[output_path].complete

\* C8: save_results never raises; it returns false when creating the
\* directory or writing the output fails, and it returns true only when the
\* output was written.
C8_TrueOnlyWhenWritten ==
    /\ pc # "raised"
    /\ pc = "returned" =>
          /\ fault = "mkdir" => ~success
          /\ success => OutputWritten

\* the call returned true for the format fmt
Saved(fmt) == pc = "returned" /\ Lower(format) = fmt /\ success

\* the columns of the row of one item, and a cell as a reader gets it back
\* (an empty cell is how a missing value is written)
OwnColumns(ext) ==
    {<<"class">>, <<"text">>, <<"confidence">>}
    \cup {<<"attr_", key>> : key \in DOMAIN ext["attributes"].entries}
LoadCell(cell) == IF cell = "" THEN None ELSE cell

\* C21: persisting a result as csv gives one row per extraction item with
\* the columns class, text, confidence; each row has `attr_<key>` columns
\* only for its own item's keys (columns are not unioned across rows), and
\* re-loading the rows recovers class, text and confidence of every item in
\* order.
C21_CsvRowsOwnColumns ==
    Saved(FormatCsv) =>
        LET table == files[output_path].data
            exts  == results["extractions"]
        IN  /\ Len(table.rows) = Len(exts)
            /\ \A k \in 1..Len(exts) :
                  /\ DOMAIN table.rows[k] = OwnColumns(exts[k])
                  /\ table.rows[k][<<"class">>] = exts[k]["class"]
                  /\ table.rows[k][<<"text">>] = exts[k]["text"]
                  /\ LoadCell(table.rows[k][<<"confidence">>]) = exts[k]["confidence"]

C23_HtmlProduced ==
    Saved(FormatHtml) => OutputWritten /\ files[output_path].format = "html"

(***************************************************************************)
(* SpecTemplates: a TemplateManager in use.  Its clients look templates    *)
(* up, list them, write settings into a descriptor they were handed (as    *)
(* the extract and batch commands do) and load custom template files.      *)
(* pc names the last operation, call_result holds what it returned.        *)
(***************************************************************************)
RequestedNames ==
    DOMAIN built_in_templates \cup {"nonexistent_template", "Invoice", "invoice ", ""}

TemplateFields == {"name", "prompt", "examples", "settings"}
FieldValue(field) ==
    CASE field = "name" -> <<"custom">>
      [] field = "prompt" -> <<"p">>
      [] field = "examples" -> <<InvoiceExample>>
      [] field = "settings" -> <<[max_char_buffer |-> 500]>>
\* every parsed document over the fields the loader and the commands read
ParsedTemplates == {[f \in present |-> FieldValue(f)[1]] : present \in SUBSET TemplateFields}
TemplateFiles ==
    {[exists |-> FALSE, json_ok |-> FALSE, parsed |-> EmptyDict],
     [exists |-> TRUE, json_ok |-> FALSE, parsed |-> EmptyDict]}
    \cup {[exists |-> TRUE, json_ok |-> TRUE, parsed |-> doc] : doc \in ParsedTemplates}
OverridePasses == {1, 3}
OverrideWorkers == {7}

InitTemplates ==
    /\ pc = "idle"
    /\ template_manager = built_in_templates
    /\ template = NoValue /\ custom_template = NoValue
    /\ call_result = NoValue
    /\ ChainIdle /\ DispatchIdle /\ ExtractorIdle /\ SaveIdle /\ CliIdle
    /\ api_valid = NoValue /\ directory = NoValue /\ max_files = NoValue
    /\ passes = NoValue /\ workers = NoValue /\ pdf_files = NoValue /\ idx = NoValue
    /\ results_summary = NoValue /\ log = NoValue

TemplatesFrame ==
    UNCHANGED <<chainVars, dispatchVars, extractorVars, saveVars, cliVars, api_valid, directory,
                max_files, pdf_files, idx, results_summary, log>>

GetTemplate ==
    /\ \E template_name \in RequestedNames :
          /\ template' = template_name
          /\ call_result' = get_template(template_manager, template_name)
    /\ pc' = "get_template"
    /\ custom_template' = NoValue /\ passes' = NoValue /\ workers' = NoValue
    /\ UNCHANGED template_manager
    /\ TemplatesFrame

ListTemplates ==
    /\ call_result' = Returned(list_templates(template_manager))
    /\ pc' = "list_templates"
    /\ template' = NoValue /\ custom_template' = NoValue
    /\ passes' = NoValue /\ workers' = NoValue
    /\ UNCHANGED template_manager
    /\ TemplatesFrame

\* pdf_extractor.py 182-183, 310-311 on the descriptor get_template returned
OverrideSettings ==
    /\ pc \in {"get_template", "override"}
    /\ ~call_result.raised
    /\ "settings" \in DOMAIN call_result.value
    /\ \E n_passes \in OverridePasses, n_workers \in OverrideWorkers :
          \E overridden \in {SetSetting(SetSetting(call_result.value, "extraction_passes", n_passes),
                                        "max_workers", n_workers)} :
              /\ passes' = n_passes /\ workers' = n_workers
              /\ call_result' = Returned(overridden)
              /\ template_manager' = [template_manager EXCEPT ![template] = overridden]
    /\ pc' = "override"
    /\ UNCHANGED <<template, custom_template>>
    /\ TemplatesFrame

LoadCustomTemplate ==
    /\ \E file \in TemplateFiles :
          /\ custom_template' = [given |-> TRUE, file |-> file]
          /\ call_result' = load_custom_template(file)
    /\ pc' = "load_custom_template"
    /\ template' = NoValue /\ passes' = NoValue /\ workers' = NoValue
    /\ UNCHANGED template_manager
    /\ TemplatesFrame

NextTemplates == GetTemplate \/ ListTemplates \/ OverrideSettings \/ LoadCustomTemplate

SpecTemplates == InitTemplates /\ [][NextTemplates]_vars

\* the identifiers TemplateManager.__init__ registers
KnownTemplateNames ==
    {"invoice", "resume", "research_paper", "medical_report", "contract", "receipt",
     "academic_paper", "bank_statement", "business_card", "tax_document"}

\* C12: get_template(name) returns a descriptor exactly when name is one of
\* list_templates(); for every other name it fails with an error that names
\* the requested identifier and lists all known identifiers.
C12_GetTemplateTotal ==
    /\ pc # "idle" => list_templates(template_manager) = KnownTemplateNames
    /\ pc = "list_templates" => call_result.value = KnownTemplateNames
    /\ pc = "get_template" =>
          IF template \in KnownTemplateNames
          THEN /\ ~call_result.raised
               /\ call_result.value["name"] = template
               /\ call_result.value = template_manager[template]
          ELSE /\ call_result.raised
               /\ call_result.error[1] = "ValueError"
               /\ call_result.error[3] = template
               /\ call_result.error[4] = KnownTemplateNames

\* a known name in another letter case is looked up on a manager whose
\* invoice descriptor has been written to
C12_Witness ==
    /\ pc = "get_template" /\ template = "Invoice"
    /\ template_manager["invoice"] # built_in_templates["invoice"]
    /\ call_result.raised /\ call_result.error[3] = "Invoice"

MissingFields(doc) == {"name", "prompt", "examples"} \ DOMAIN doc
Loaded == pc = "load_custom_template" /\ custom_template.file.exists /\ custom_template.file.json_ok

\* C13: for every subset of {name, prompt, examples} missing from a parsed
\* custom template, load_custom_template fails with an error naming exactly
\* the first missing field in the order name, prompt, examples; when none is
\* missing it returns the template.
C13_FirstMissingField ==
    Loaded =>
        LET doc == custom_template.file.parsed
            missing == MissingFields(doc)
        IN  /\ missing = {} => (~call_result.raised /\ call_result.value = doc)
            /\ missing # {} =>
                  /\ call_result.raised
                  /\ call_result.error[1] = "ValueError"
                  /\ Len(call_result.error) = 3
                  /\ call_result.error[3] =
                        (IF "name" \in missing THEN "name"
                         ELSE IF "prompt" \in missing THEN "prompt" ELSE "examples")

\* prompt and examples are both missing, settings is present
C13_Witness ==
    /\ Loaded
    /\ MissingFields(custom_template.file.parsed) = {"prompt", "examples"}
    /\ "settings" \in DOMAIN custom_template.file.parsed
    /\ call_result.raised /\ call_result.error[3] = "prompt"

(***************************************************************************)
(* SpecUtils: one call of validate_output_format or of sanitize_filename.  *)
(* format is the format name and output_path the filename passed,          *)
(* call_result what the call returned.                                     *)
(***************************************************************************)
Padding == {<<>>, <<" ">>, <<"\n", " ">>}
FormatWords == {FormatJson, <<"J", "S", "O", "N">>, FormatJsonl, <<"J", "s", "o", "n", "L">>,
                FormatCsv, <<"C", "S", "V">>, FormatHtml, <<"H", "t", "m", "l">>,
                <<"x", "m", "l">>, <<"j", "s", " ", "o", "n">>, <<"j", "s", "o", "n", "x">>, <<>>}
FormatNames == {lead \o word \o trail : lead \in Padding, word \in FormatWords, trail \in Padding}

Repeat(c, n) == [i \in 1..n |-> c]
FilenamePrefixes == {<<>>, <<"f", "<", ">", "|", "?">>, <<"d", ".", "x", "/">>, <<".", ".">>}
FilenameExtensions == {<<>>, <<".", "p", "d", "f">>, <<".", "p", "*", "f">>, <<".">>,
                       <<".">> \o Repeat("b", LengthLimit + 1)}
FilenameLengths == {0, 1, LengthLimit - 4, LengthLimit + 50}
Filenames == {prefix \o Repeat("a", n) \o ext :
                 prefix \in FilenamePrefixes, n \in FilenameLengths, ext \in FilenameExtensions}

InitUtils ==
    /\ pc = "idle"
    /\ format \in FormatNames
    /\ output_path \in Filenames
    /\ call_result = NoValue
    /\ fault = NoValue /\ files = NoValue /\ success = NoValue
    /\ template_manager = NoValue
    /\ ChainIdle /\ DispatchIdle /\ ExtractorIdle /\ BatchIdle /\ CliIdle

ValidateOutputFormat ==
    /\ pc = "idle"
    /\ call_result' = validate_output_format(format)
    /\ pc' = "validate_output_format"
    /\ UNCHANGED <<chainVars, dispatchVars, extractorVars, saveVars, batchVars,
                   template_manager, cliVars>>

SanitizeFilename ==
    /\ pc = "idle"
    /\ call_result' = Returned(sanitize_filename(output_path))
    /\ pc' = "sanitize_filename"
    /\ UNCHANGED <<chainVars, dispatchVars, extractorVars, saveVars, batchVars,
                   template_manager, cliVars>>

NextUtils == ValidateOutputFormat \/ SanitizeFilename

SpecUtils == InitUtils /\ [][NextUtils]_vars

\* name is what is left of input after removing the surrounding whitespace
\* and lower-casing
NormalForm(input, name) ==
    \E i \in 1..(Len(input) + 1), j \in 0..Len(input) :
        /\ \A k \in 1..(i - 1) : input[k] \in Whitespace
        /\ \A k \in (j + 1)..Len(input) : input[k] \in Whitespace
        /\ i <= j => input[i] \notin Whitespace /\ input[j] \notin Whitespace
        /\ Lower(SubSeq(input, i, j)) = name

\* C25: validate_output_format returns the lower-cased, whitespace-trimmed
\* name for every input whose normalized form is one of json, jsonl, csv,
\* html, raises ValueError for every other input, and is idempotent on its
\* own outputs.
C25_NormalizedOrRejected ==
    pc = "validate_output_format" =>
        IF \E name \in supported_formats : NormalForm(format, name)
        THEN /\ ~call_result.raised
             /\ NormalForm(format, call_result.value)
             /\ call_result.value \in supported_formats
             /\ validate_output_format(call_result.value) = call_result
        ELSE call_result.raised /\ call_result.error[1] = "ValueError"

\* a padded mixed-case name was normalized
C25_Witness ==
    /\ pc = "validate_output_format"
    /\ format = <<" ", "J", "s", "o", "n", "L", "\n", " ">>
    /\ call_result = Returned(FormatJsonl)

EndsWith(s, suffix) ==
    Len(suffix) <= Len(s) /\ SubSeq(s, Len(s) - Len(suffix) + 1, Len(s)) = suffix

\* C26: for every input filename, sanitize_filename returns a name that
\* contains none of the characters <>:"/\|?*, is at most 200 characters
\* long, and still ends with the input's extension.
C26_SanitizedBounded ==
    pc = "sanitize_filename" =>
        /\ \A i \in 1..Len(call_result.value) : call_result.value[i] \notin invalid_chars
        /\ Len(call_result.value) <= LengthLimit
        /\ EndsWith(call_result.value, splitext(output_path).ext)

(***************************************************************************)
(* SpecExtractCommand: one run of the extract command.                     *)
(*   pc = "extract:start"  before the command body                         *)
(*        "extract:call"   the template is resolved, before the extraction *)
(*        "extract:save"   the extraction succeeded, before persistence    *)
(*        "done"           the command completed                           *)
(*        "exit"           sys.exit(1)                                     *)
(* cli_args are the options as given, the variables template, format,      *)
(* passes, ... the locals of the command after the merge with the          *)
(* configuration; log lists the core calls made and the step that exited.  *)
(***************************************************************************)
Gpt4 == <<"g", "p", "t", "-", "4">>
DefaultConfig ==
    [template |-> None, custom_template |-> NotGiven, model |-> Gemini25Flash, passes |-> 2,
     workers |-> 10, format |-> FormatJson, directory |-> NoOutput, visualize |-> FALSE]
FileConfig ==
    [template |-> "research_paper", custom_template |-> NotGiven, model |-> Gpt4, passes |-> 3,
     workers |-> 4, format |-> FormatCsv, directory |-> NoOutput, visualize |-> FALSE]
ExtractTemplateOptions ==
    {option \in TemplateOptions :
        option[2].given => (option[1] = None \/ "prompt" \notin DOMAIN option[2].file.parsed)}
ExtractFormats == {FormatJson, <<" ", "C", "S", "V">>, FormatHtml, <<"x", "m", "l">>, <<>>}
ExtractPaths ==
    {path \in [name : {"a"}, exists : BOOLEAN, suffix : {PdfSuffix, <<".", "P", "D", "F">>, <<".", "t", "x", "t">>}] :
        ~path.exists => path.suffix = PdfSuffix}
CliArgs ==
    {[template |-> option[1], custom_template |-> option[2], output |-> out, format |-> fmt,
      model |-> model, passes |-> n_passes, workers |-> n_workers, visualize |-> viz] :
        option \in ExtractTemplateOptions,
        out \in {NoOutput, [stem |-> <<"out">>, ext |-> FormatJson]},
        fmt \in ExtractFormats, model \in {Gemini25Flash, Gpt4},
        n_passes \in {0, 1, 3, 5}, n_workers \in {0, 7}, viz \in BOOLEAN}
ExtractEnvirons == {e \in Environs : e["GOOGLE_API_KEY"] = "kg" \/ e["OPENAI_API_KEY"] = "ko"}

InitExtractCommand ==
    /\ pc = "extract:start"
    /\ command = "extract"
    /\ cli_args \in CliArgs
    /\ config_manager \in {DefaultConfig, FileConfig}
    /\ api_valid \in BOOLEAN
    /\ env \in ExtractEnvirons
    /\ pdf_path \in ExtractPaths
    /\ template_manager = built_in_templates
    /\ files = EmptyDict /\ calls = <<>> /\ log = <<>>
    /\ libs = NoValue /\ text_result = NoValue /\ text = NoValue
    /\ template_config = NoValue /\ service = NoValue /\ results = NoValue
    /\ template = NoValue /\ custom_template = NoValue /\ passes = NoValue
    /\ workers = NoValue /\ format = NoValue /\ model_id = NoValue
    /\ visualize = NoValue /\ output = NoValue /\ success = NoValue
    /\ language_model_type = NoValue /\ output_path = NoValue /\ fault = NoValue
    /\ directory = NoValue /\ max_files = NoValue /\ pdf_files = NoValue /\ idx = NoValue
    /\ results_summary = NoValue /\ call_result = NoValue

\* lines 80-183
ExtractSetup ==
    /\ pc = "extract:start"
    /\ \E behaviour \in BatchLibs, present \in BOOLEAN :
          \E run \in {extract_setup(cli_args, config_manager, api_valid, env,
                                    template_manager, pdf_path, present, behaviour)} :
              /\ libs' = behaviour
              /\ pdf_path' = [pdf_path EXCEPT !.exists = pdf_path.exists /\ present]
              /\ template' = run.merged.template
              /\ custom_template' = run.merged.custom_template
              /\ output' = run.merged.output
              /\ passes' = run.merged.passes
              /\ workers' = run.merged.workers
              /\ visualize' = run.merged.visualize
              /\ format' = run.format
              /\ model_id' = run.model
              /\ text_result' = run.text_result
              /\ text' = run.text
              /\ template_config' = run.template_config
              /\ template_manager' = run.registry
              /\ log' = run.log
              /\ pc' = IF run.kind = "ok" THEN "extract:call" ELSE "exit"
    /\ UNCHANGED <<language_model_type, env, service, results, calls, output_path,
                   fault, files, success, api_valid, directory, max_files, pdf_files, idx,
                   results_summary, call_result, command, cli_args, config_manager>>

\* lines 185-209
ExtractCall ==
    /\ pc = "extract:call"
    /\ \E svc \in BatchServices :
          \E extraction \in {extract_with_template(model_id, text, template_config, env, svc)} :
              /\ service' = svc
              /\ log' = Append(log, "extract_with_template")
              /\ IF extraction.raised
                 THEN pc' = "exit" /\ UNCHANGED <<results, calls>>
                 ELSE /\ results' = extraction.value.result
                      /\ calls' = calls \o extraction.value.calls
                      /\ pc' = IF DictGet(extraction.value.result, "success", FALSE)
                               THEN "extract:save" ELSE "exit"
    /\ UNCHANGED <<chainVars, dispatchVars, text, template_config, env, saveVars,
                   batchInputs, pdf_files, idx, results_summary, templateVars, cliVars>>

\* lines 211-245
ExtractSave ==
    /\ pc = "extract:save"
    /\ \E flt \in {"none", "write"}, flt2 \in {"none", "open"}, viz \in {"none", "visualize"} :
          \E saved \in {extract_save(results, output, pdf_path, template, custom_template,
                                     format, visualize, files, flt, flt2, viz)} :
              /\ output' = saved.output
              /\ success' = saved.success
              /\ files' = saved.files
              /\ log' = log \o saved.log
              /\ pc' = saved.kind
    /\ UNCHANGED <<chainVars, dispatchVars, extractorVars, output_path, format, fault,
                   batchInputs, pdf_files, idx, results_summary, templateVars, command,
                   cli_args, config_manager, visualize>>

NextExtractCommand == ExtractSetup \/ ExtractCall \/ ExtractSave

SpecExtractCommand == InitExtractCommand /\ [][NextExtractCommand]_vars

\* the command went past a step / ended at it
Called(step) == \E k \in 1..Len(log) : log[k] = step
ExitedAt(reason) == pc = "exit" /\ log # <<>> /\ log[Len(log)] = reason
SetupDone == pc # "extract:start"

\* C14: the caller-supplied passes and workers values are written into the
\* resolved template's settings before any extraction call, and every
\* extraction call of the run receives exactly those values, whatever the
\* template's defaults were.
C14_CallerSettingsReachService ==
    /\ (SetupDone /\ pc # "exit") =>
          /\ template_config["settings"]["extraction_passes"] = cli_args.passes
          /\ template_config["settings"]["max_workers"] = cli_args.workers
    /\ (SetupDone /\ (pc # "exit" \/ Called("extract_with_template"))) =>
          \A k \in 1..Len(calls) :
              /\ calls[k].extraction_passes = cli_args.passes
              /\ calls[k].max_workers = cli_args.workers

\* a custom template with name, prompt and examples and without settings
SettingsFreeTemplate(custom) ==
    /\ custom.given /\ custom.file.exists /\ custom.file.json_ok
    /\ MissingFields(custom.file.parsed) = {}
    /\ "settings" \notin DOMAIN custom.file.parsed

\* C15: a custom template that has name, prompt and examples but no
\* `settings` is accepted, and the command proceeds with it to the
\* extraction call instead of failing.
C15_SettingsOptional ==
    (SetupDone /\ SettingsFreeTemplate(custom_template)) => ~ExitedAt("exit:template")

\* the input errors of a single-file run, on the options as merged
MissingSelector == template = None /\ ~custom_template.given
MissingTemplateField ==
    /\ custom_template.given /\ custom_template.file.exists /\ custom_template.file.json_ok
    /\ MissingFields(custom_template.file.parsed) # {}
InputError ==
    \/ ~pdf_path.exists
    \/ pdf_path.suffix \notin PdfSuffixAnyCase
    \/ MissingSelector
    \/ MissingTemplateField

\* C17: in a single-file run, a missing file, a wrong file type, a missing
\* template selector or a custom template missing a required field ends the
\* run with a failure before the extraction service is called and before any
\* output is written.
C17_InputErrorsStopEarly ==
    (SetupDone /\ InputError) =>
        /\ pc = "exit"
        /\ calls = <<>>
        /\ ~Called("extract_with_template") /\ ~Called("save_results")
        /\ files = EmptyDict

\* the text was extracted, the key and the options were valid, and the
\* custom template lacks its prompt
C17_Witness ==
    /\ ExitedAt("exit:template")
    /\ log = <<"extract_text", "exit:template">>
    /\ text_result.kind = "ok"
    /\ MissingTemplateField /\ "prompt" \in MissingFields(custom_template.file.parsed)
    /\ calls = <<>> /\ files = EmptyDict

\* C20: a descriptor of the built-in registry is not changed by a run: after
\* the command has applied the caller's overrides and run, get_template on
\* the same TemplateManager still returns the template's default settings.
C20_RegistryUnchanged ==
    pc \in {"done", "exit"} =>
        \A name \in list_templates(template_manager) :
            get_template(template_manager, name).value = built_in_templates[name]

(***************************************************************************)
(* SpecBatch: one run of the batch command.                                *)
(*   pc = "start"  before the command body                                 *)
(*        "loop"   in the loop over pdf_files, idx is the next file        *)
(*        "done"   after the summary was written                           *)
(*        "exit"   sys.exit(1)                                             *)
(*        "crashed:setup", "crashed:loop", "crashed:summary"               *)
(*                 an exception left the command at that place             *)
(***************************************************************************)
InitBatch ==
    /\ pc = "start"
    /\ api_valid \in BOOLEAN
    /\ directory \in Directories
    /\ max_files \in MaxFilesOptions
    /\ Len(IF max_files # 0 THEN SliceTo(find_pdf_files(directory), max_files)
           ELSE find_pdf_files(directory)) <= MaxFiles
    /\ \E option \in TemplateOptions : template = option[1] /\ custom_template = option[2]
    /\ format \in BatchFormats
    /\ model_id = <<"g", "p", "t", "-", "4">>
    /\ passes \in {1, 5}
    /\ workers = 7
    /\ env = CHOOSE e \in Environs : e["GOOGLE_API_KEY"] = "kg"
    /\ files = EmptyDict
    /\ template_config = NoValue
    /\ pdf_files = <<>> /\ idx = 1 /\ results_summary = <<>> /\ log = <<>>
    /\ calls = <<>>
    /\ ChainIdle
    /\ language_model_type = NoValue
    /\ text = NoValue /\ service = NoValue /\ results = NoValue
    /\ output_path = NoValue /\ fault = NoValue /\ success = NoValue
    /\ command = "batch"
    /\ template_manager = built_in_templates
    /\ call_result = NoValue
    /\ cli_args = NoValue /\ config_manager = NoValue /\ visualize = NoValue /\ output = NoValue

\* lines 261-311
BatchStart ==
    /\ pc = "start"
    /\ LET found == find_pdf_files(directory)
           resolved == ResolveTemplate(template_manager, template, custom_template, passes, workers)
       IN  IF ~api_valid \/ found = <<>>
           THEN pc' = "exit" /\ UNCHANGED <<pdf_files, template_config, template_manager>>
           ELSE /\ pdf_files' = IF max_files # 0 THEN SliceTo(found, max_files) ELSE found
                /\ template_manager' = resolved.registry
                /\ IF resolved.kind = "ok"
                   THEN pc' = "loop" /\ template_config' = resolved.config
                   ELSE /\ pc' = IF resolved.kind = "exit" THEN "exit" ELSE "crashed:setup"
                        /\ UNCHANGED template_config
    /\ UNCHANGED <<chainVars, dispatchVars, text, env, service, results, calls, saveVars,
                   batchInputs, idx, results_summary, log, call_result, cliVars>>

\* lines 317-350
BatchFile ==
    /\ pc = "loop"
    /\ idx <= Len(pdf_files)
    /\ \E present \in BOOLEAN, behaviour \in BatchLibs, svc \in BatchServices, flt \in BatchFaults :
          \E step \in {batch_iteration(pdf_files[idx], template_config, model_id, format, env,
                                       files, present, behaviour, svc, flt)} :
              IF step.raised
              THEN pc' = "crashed:loop" /\ UNCHANGED <<idx, results_summary, log, files, calls>>
              ELSE /\ results_summary' = Append(results_summary, step.value.outcome)
                   /\ log' = Append(log, step.value.entry)
                   /\ files' = step.value.files
                   /\ calls' = calls \o step.value.calls
                   /\ idx' = idx + 1
                   /\ pc' = pc
    /\ UNCHANGED <<chainVars, dispatchVars, text, template_config, env, service, results,
                   output_path, format, fault, success, batchInputs, pdf_files,
                   templateVars, cliVars>>

\* lines 352-372
BatchSummary ==
    /\ pc = "loop"
    /\ idx > Len(pdf_files)
    /\ \E flt \in {"none", "open"} :
          IF flt = "open"
          THEN pc' = "crashed:summary" /\ files' = files
          ELSE /\ pc' = "done"
               /\ files' = WriteFile(files, SummaryFile,
                                      [format |-> "json", complete |-> TRUE,
                                       data |-> results_summary])
    /\ UNCHANGED <<chainVars, dispatchVars, extractorVars, output_path, format, fault,
                   success, batchVars, templateVars, cliVars>>

NextBatch == BatchStart \/ BatchFile \/ BatchSummary

SpecBatch == InitBatch /\ [][NextBatch]_vars

Recorded == 1..Len(results_summary)

\* C3: whatever fails for a file (text extraction raising, service failure,
\* persistence failure), the loop is never left by an exception, the
\* outcomes recorded are one per input file in input order, and the summary
\* written after the loop holds the outcome of every file.
C3_OneOutcomePerFile ==
    /\ pc # "crashed:loop"
    /\ pc \in {"loop", "done", "crashed:summary"} =>
          /\ Len(results_summary) = idx - 1
          /\ Len(log) = Len(results_summary)
          /\ \A k \in Recorded : results_summary[k]["file"] = FileName(pdf_files[k])
    /\ pc \in {"done", "crashed:summary"} => Len(results_summary) = Len(pdf_files)
    /\ pc = "done" =>
          /\ SummaryFile \in DOMAIN files
          /\ files[SummaryFile].data = results_summary

\* a run over three files: text extraction raises for the first, the
\* service and the write fail for the second, the third succeeds
C3_Witness ==
    /\ pc = "done" /\ Len(pdf_files) = 3
    /\ log[1].text_kind = "RuntimeError"
    /\ log[2].results_success = "False" /\ log[2].save_ret = "False"
    /\ results_summary[3]["status"] = "success"
    /\ Len(files[SummaryFile].data) = 3

\* C4 as stated: a file for which the text-extraction chain fails (all
\* strategies exhausted) or yields empty text is recorded with status
\* `failed` carrying the extraction error.
C4_ExhaustedIsFailed ==
    \A k \in Recorded :
        log[k].text_kind \in {"RuntimeError", "empty"} =>
            /\ results_summary[k]["status"] = "failed"
            /\ "error" \in DOMAIN results_summary[k]

\* C9 as stated: persisting with an unsupported format is a persistence
\* error, so a file persisted with it is recorded as `save_failed` or
\* `error`, never as `success`.
C9_UnsupportedFormatNotSuccess ==
    \A k \in Recorded :
        (log[k].save_ret # "-"
         /\ Lower(format) \notin {FormatJson, FormatJsonl, FormatCsv, FormatHtml}) =>
            results_summary[k]["status"] \in {"save_failed", "error"}

\* C16: the core (text extraction, extraction call, persistence) is invoked
\* only with a format in {json, jsonl, csv, html} and passes in [1,3]; a
\* value outside those sets is rejected before any core call.
C16_ValidatedBeforeCore ==
    Len(log) > 0 =>
        /\ Strip(Lower(format)) \in supported_formats
        /\ passes \in 1..3

\* the files of the run that reached persistence
Persisted == {k \in Recorded : log[k].text_kind = "ok"}

\* C18: for every file that reaches persistence, the recorded status is
\* `success` exactly when save_results returned true and `save_failed`
\* otherwise, and the outcome carries an output path only in the `success`
\* case.
C18_StatusFollowsSave ==
    pc \in {"loop", "done", "crashed:summary"} =>
        \A k \in Recorded :
            IF k \in Persisted
            THEN /\ log[k].save_ret = "True" => results_summary[k]["status"] = "success"
                 /\ log[k].save_ret = "False" => results_summary[k]["status"] = "save_failed"
                 /\ results_summary[k]["output_file"] # NoPath
                        <=> results_summary[k]["status"] = "success"
                 /\ results_summary[k]["status"] = "success" =>
                        results_summary[k]["output_file"] = OutputFile(pdf_files[k], format)
            ELSE "output_file" \notin DOMAIN results_summary[k]

\* one file of the run was saved and one was not
C18_Witness ==
    /\ pc = "done"
    /\ \E k \in Persisted : log[k].save_ret = "False" /\ results_summary[k]["output_file"] = NoPath
    /\ \E k \in Persisted : log[k].save_ret = "True" /\ results_summary[k]["status"] = "success"

\* C19: the extraction service is invoked at most once per document per run.
C19_OneCallPerDocument ==
    pc \in {"loop", "done", "crashed:summary"} =>
        /\ \A k \in Recorded : log[k].service_calls <= 1
        /\ \A j, k \in Recorded :
              (j # k /\ log[j].file = log[k].file) =>
                  log[j].service_calls + log[k].service_calls <= 1

\* C28: an outcome with status `success` implies that the extraction service
\* call for that file succeeded (its result had success=true); a file whose
\* extraction result has success=false is not counted as successful in the
\* summary.
C28_SuccessMeansExtracted ==
    pc \in {"loop", "done", "crashed:summary"} =>
        \A k \in Recorded :
            results_summary[k]["status"] = "success" => log[k].results_success = "True"

\* C29: find_pdf_files returns every PDF under the directory (top level and
\* subdirectories) exactly once, so a batch run processes each PDF once and
\* the --max-files limit counts distinct files.
C29_EachPdfOnce ==
    pc \in {"loop", "done", "crashed:summary"} =>
        /\ \A j, k \in 1..Len(pdf_files) : j # k => pdf_files[j] # pdf_files[k]
        /\ \A j, k \in Recorded : j # k => log[j].file # log[k].file

\* C30: distinct input files are persisted to distinct output paths, so the
\* output file recorded in one file's `success` outcome is never overwritten
\* by the result of another file of the same run.
C30_DistinctOutputs ==
    pc \in {"loop", "done", "crashed:summary"} =>
        \A j, k \in Persisted :
            (/\ log[j].file # log[k].file
             /\ results_summary[j]["status"] = "success"
             /\ results_summary[k]["status"] = "success") =>
                OutputFile(log[k].file, format) # results_summary[j]["output_file"]
====
